---------------------------- MODULE Spec2Model ----------------------------
(* A model of the HTTP server of src/src/http_server.cpp.                  *)
(*                                                                         *)
(* A std::string is a sequence of bytes, each a number in 0..255: the      *)
(* tuple <<71,69,84>> is "GET".  Positions are 0-based as in the source;   *)
(* npos and every size_t that wrapped below zero are negative numbers.     *)
(*                                                                         *)
(* An intermediate result the source keeps in a local variable and reads   *)
(* more than once is the parameter of a local operator named after the     *)
(* statements that follow the assignment, so that it is computed once.     *)
EXTENDS Integers, Sequences, FiniteSets, TLC

(***************************************************************************)
(* std::string                                                             *)
(***************************************************************************)
npos == 0 - 1

Min(a, b) == IF a < b THEN a ELSE b

\* s.substr(pos, n): n < 0 is a wrapped (huge) count, to the end of s
Substr(s, pos, n) ==
    IF n < 0 THEN SubSeq(s, pos + 1, Len(s))
    ELSE SubSeq(s, pos + 1, Min(pos + n, Len(s)))

\* s.substr(pos)
SubstrFrom(s, pos) == SubSeq(s, pos + 1, Len(s))

MatchAt(s, pat, i) ==
    /\ i + Len(pat) <= Len(s)
    /\ \A k \in 1..Len(pat) : s[i + k] = pat[k]

\* the least and the greatest member of a non-empty set of positions
Least(hits) == CHOOSE i \in hits : \A j \in hits : i <= j
Greatest(hits) == CHOOSE i \in hits : \A j \in hits : i >= j

\* a finite set of integers in increasing order
RECURSIVE SortedInts(_)
SortedInts(S) ==
    IF S = {} THEN <<>>
    ELSE LET After(m) == <<m>> \o SortedInts(S \ {m})
         IN  After(Least(S))

\* the first and the last of the positions found, npos when there is none
FirstHit(hits) == IF hits = {} THEN npos ELSE Least(hits)
LastHit(hits) == IF hits = {} THEN npos ELSE Greatest(hits)

\* s.find(pat, from)
Find(s, pat, from) ==
    IF from < 0 THEN npos
    ELSE IF pat = <<>> THEN FirstHit(from..Len(s))
    ELSE FirstHit({i \in from..(Len(s) - Len(pat)) :
                      s[i + 1] = pat[1] /\ MatchAt(s, pat, i)})

\* s.find_first_of(set)
FindFirstOf(s, set) == FirstHit({i \in 0..(Len(s) - 1) : s[i + 1] \in set})

\* s.find_first_not_of(set)
FindFirstNotOf(s, set) == FirstHit({i \in 0..(Len(s) - 1) : s[i + 1] \notin set})

\* s.find_last_not_of(set)
FindLastNotOf(s, set) == LastHit({i \in 0..(Len(s) - 1) : s[i + 1] \notin set})

\* s.erase(0, p)
EraseTo(s, p) == IF p = npos THEN <<>> ELSE SubstrFrom(s, p)

\* s.erase(0, s.find_first_not_of(set))
EraseLeading(s, set) == EraseTo(s, FindFirstNotOf(s, set))

\* s.erase(s.find_last_not_of(set) + 1)
EraseTrailing(s, set) == SubSeq(s, 1, FindLastNotOf(s, set) + 1)

SpaceTab == {32, 9}
SpaceTabCrLf == {32, 9, 13, 10}
\* std::isspace in the "C" locale
IsSpace == {32, 9, 10, 11, 12, 13}

\* the key.erase / value.erase pair used wherever the source trims
Trim(s) == EraseTrailing(EraseLeading(s, SpaceTab), SpaceTabCrLf)

\* operator< of std::string: lexicographic on unsigned bytes
RECURSIVE StrLess(_, _)
StrLess(a, b) ==
    IF b = <<>> THEN FALSE
    ELSE IF a = <<>> THEN TRUE
    ELSE IF a[1] # b[1] THEN a[1] < b[1]
    ELSE StrLess(Tail(a), Tail(b))

\* the keys of a std::map in its iteration order
RECURSIVE SortedKeys(_)
SortedKeys(keys) ==
    IF keys = {} THEN <<>>
    ELSE LET After(k) == <<k>> \o SortedKeys(keys \ {k})
         IN  After(CHOOSE x \in keys : \A y \in keys \ {x} : StrLess(x, y))

\* m[k] = v on a std::map
MapPut(m, k, v) == [x \in DOMAIN m \cup {k} |-> IF x = k THEN v ELSE m[x]]

EmptyMap == [x \in {} |-> <<>>]

\* std::getline(stream, line, delim) until it fails: the lines it yields.
\* A line ends at each delim and at the end of s; no line follows a delim
\* that is the last byte of s
SplitOn(s, delim) ==
    LET Lines(ends) ==
            [n \in 1..Len(ends) |->
                SubSeq(s, IF n = 1 THEN 1 ELSE ends[n - 1] + 1, ends[n] - 1)]
    IN  Lines(SortedInts({i \in 1..(Len(s) + 1) :
                             IF i <= Len(s) THEN s[i] = delim
                             ELSE s # <<>> /\ s[Len(s)] # delim}))

\* operator>> into a std::string, repeated: the whitespace-separated tokens
RECURSIVE Tokens(_)
Tokens(s) ==
    LET Token(t, e) ==
            IF t = <<>> THEN <<>>
            ELSE IF e = npos THEN <<t>>
            ELSE <<SubSeq(t, 1, e)>> \o Tokens(SubstrFrom(t, e))
        Skipped(t) == Token(t, FindFirstOf(t, IsSpace))
    IN  Skipped(EraseLeading(s, IsSpace))

\* std::to_string / operator<< of an integer; the digits of a negative n
\* are taken without negating it, so that the smallest int has its text too
RECURSIVE to_string(_)
to_string(n) ==
    IF n < 0
    THEN IF n > 0 - 10 THEN <<45>> (* "-" *) \o <<48 - n>>
         ELSE to_string(0 - (((0 - (n + 10)) \div 10) + 1))
                 \o <<48 + ((0 - (n + 10)) % 10)>>
    ELSE IF n < 10 THEN <<48 + n>>
    ELSE to_string(n \div 10) \o <<48 + (n % 10)>>

(***************************************************************************)
(* url_decode                                                              *)
(***************************************************************************)
HexDigit(c) ==
    IF c \in 48..57 THEN c - 48
    ELSE IF c \in 65..70 THEN c - 55
    ELSE IF c \in 97..102 THEN c - 87
    ELSE 0 - 1

\* hex_stream >> std::hex >> hex_value on the two bytes after a '%': leading
\* whitespace is skipped, a sign and a 0x prefix are accepted, digits are
\* read while they last, and a failed extraction stores 0.  When nothing but
\* whitespace is left the extraction stores nothing and hex_value, declared
\* without an initializer, keeps the indeterminate value `uninit`
HexExtract(h, uninit) ==
    LET Magnitude(v1, v2) ==
            IF v1 < 0 THEN 0
            ELSE IF v2 < 0 THEN v1
            ELSE 16 * v1 + v2
        Digits(u) ==
            Magnitude(IF u = <<>> THEN 0 - 1 ELSE HexDigit(u[1]),
                      IF Len(u) < 2 THEN 0 - 1 ELSE HexDigit(u[2]))
        Signed(t) ==
            IF t = <<>> THEN uninit
            ELSE IF t[1] = 45 THEN 0 - Digits(Tail(t))
            ELSE IF t[1] = 43 THEN Digits(Tail(t))
            ELSE Digits(t)
    IN  Signed(EraseLeading(h, IsSpace))

\* static_cast<char>(hex_value), read back as an unsigned byte
ToByte(n) == n % 256

\* url_decode with the length test one byte too strict, so that an escape
\* standing as the last three bytes is left undecoded
RECURSIVE UrlDecodeFromShort(_, _, _)
UrlDecodeFromShort(s, i, uninit) ==
    IF i >= Len(s) THEN <<>>
    ELSE IF s[i + 1] = 37 /\ i + 3 < Len(s)
         THEN <<ToByte(HexExtract(Substr(s, i + 1, 2), uninit))>>
              \o UrlDecodeFromShort(s, i + 3, uninit)
    ELSE IF s[i + 1] = 43 THEN <<32>> \o UrlDecodeFromShort(s, i + 1, uninit)
    ELSE <<s[i + 1]>> \o UrlDecodeFromShort(s, i + 1, uninit)

RECURSIVE UrlDecodeFrom(_, _, _)
UrlDecodeFrom(s, i, uninit) ==
    IF i >= Len(s) THEN <<>>
    ELSE IF s[i + 1] = 37 /\ i + 2 < Len(s)
         THEN <<ToByte(HexExtract(Substr(s, i + 1, 2), uninit))>>
              \o UrlDecodeFrom(s, i + 3, uninit)
    ELSE IF s[i + 1] = 43 THEN <<32>> \o UrlDecodeFrom(s, i + 1, uninit)
    ELSE <<s[i + 1]>> \o UrlDecodeFrom(s, i + 1, uninit)

url_decode(s, uninit) == UrlDecodeFrom(s, 0, uninit)

(***************************************************************************)
(* parse_request and the body decoders                                     *)
(***************************************************************************)
\* the loop body shared by the query-string loop of parse_request and by
\* parse_url_encoded_form_data: params without '=' are skipped, both sides
\* are url-decoded, a later key overwrites an earlier one
RECURSIVE DecodePairs(_, _, _)
DecodePairs(params, m, uninit) ==
    IF params = <<>> THEN m
    ELSE LET Pair(param, eq_pos) ==
                 IF eq_pos = npos THEN m
                 ELSE MapPut(m, url_decode(Substr(param, 0, eq_pos), uninit),
                                url_decode(SubstrFrom(param, eq_pos + 1), uninit))
         IN  DecodePairs(Tail(params),
                         Pair(Head(params), Find(Head(params), <<61>> (* "=" *), 0)), uninit)

parse_url_encoded_form_data(body, uninit) ==
    DecodePairs(SplitOn(body, 38), EmptyMap, uninit)

\* the value between `key` and the next '"' of a part header line, or
\* `old` when the key or the closing quote is missing
QuotedParam(header_line, key, old) ==
    LET Value(p, e) ==
            IF p = npos \/ e = npos THEN old
            ELSE Substr(header_line, p + Len(key), e - (p + Len(key)))
        Key(p) == Value(p, Find(header_line, <<34>> (* "\"" *), p + Len(key)))
    IN  Key(Find(header_line, key, 0))

\* the while (getline(header_stream, header_line)) loop of a part
RECURSIVE PartHeaders(_, _)
PartHeaders(lines, acc) ==
    IF lines = <<>> THEN acc
    ELSE LET header_line == Head(lines)
         IN  IF Find(header_line, <<67,111,110,116,101,110,116,45,68,105,115,112,111,115,105,116,105,111,110,58>> (* "Content-Disposition:" *), 0) # npos
             THEN PartHeaders(Tail(lines),
                      [acc EXCEPT !.name = QuotedParam(header_line, <<110,97,109,101,61,34>> (* "name=\"" *), @),
                                  !.filename = QuotedParam(header_line, <<102,105,108,101,110,97,109,101,61,34>> (* "filename=\"" *), @)])
             ELSE IF Find(header_line, <<67,111,110,116,101,110,116,45,84,121,112,101,58>> (* "Content-Type:" *), 0) # npos
             THEN PartHeaders(Tail(lines),
                      [acc EXCEPT !.content_type = Trim(SubstrFrom(header_line, 13))])
             ELSE PartHeaders(Tail(lines), acc)

NoPart == [name |-> <<>>, filename |-> <<>>, content_type |-> <<>>]

\* the while loop of parse_multipart_form_data from position pos0, with the
\* form fields fd and the file parts fl stored so far
RECURSIVE MultipartLoop(_, _, _, _, _)
MultipartLoop(body, delimiter, pos0, fd, fl) ==
    LET stop == [form_data |-> fd, files |-> fl]
        Store(part, content, content_end) ==
            IF part.filename # <<>>
            THEN MultipartLoop(body, delimiter, content_end, fd,
                     MapPut(fl, part.name,
                            [filename |-> part.filename,
                             content_type |-> part.content_type,
                             data |-> content]))
            ELSE MultipartLoop(body, delimiter, content_end,
                               MapPut(fd, part.name, content), fl)
        Content(headers, pos, content_end) ==
            IF content_end = npos THEN stop
            ELSE Store(PartHeaders(SplitOn(headers, 10), NoPart),
                       Substr(body, pos, content_end - pos - 2), content_end)
        Headers(pos, header_end) ==
            IF header_end = npos THEN stop
            ELSE Content(Substr(body, pos, header_end - pos), header_end + 4,
                         Find(body, delimiter, header_end + 4))
        Part(pos) ==
            IF pos >= Len(body) \/ Substr(body, pos, 2) = <<45,45>> (* "--" *) THEN stop
            ELSE Headers(pos, Find(body, <<13,10,13,10>> (* "\r\n\r\n" *), pos))
        Delimiter(found) ==
            IF found = npos THEN stop ELSE Part(found + Len(delimiter))
    IN  Delimiter(Find(body, delimiter, pos0))

parse_multipart_form_data(body, boundary) ==
    MultipartLoop(body, <<45,45>> (* "--" *) \o boundary, 0, EmptyMap, EmptyMap)

\* the boundary= parameter of a Content-Type value, as parse_request cuts it
BoundaryOf(content_type) ==
    LET Unquoted(boundary) ==
            IF boundary # <<>> /\ boundary[Len(boundary)] = 34
            THEN Substr(boundary, 0, Len(boundary) - 1) ELSE boundary
        Cut(boundary) ==
            Unquoted(IF boundary # <<>> /\ boundary[1] = 34
                     THEN SubstrFrom(boundary, 1) ELSE boundary)
        Value(boundary, end_pos) ==
            Cut(IF end_pos # npos THEN Substr(boundary, 0, end_pos) ELSE boundary)
        After(boundary) == Value(boundary, FindFirstOf(boundary, {59, 32, 9, 13, 10, 34}))
    IN  After(SubstrFrom(content_type, Find(content_type, <<98,111,117,110,100,97,114,121,61>> (* "boundary=" *), 0) + 9))

\* the header loop of parse_request: lines without ':' are skipped
RECURSIVE ParseHeaders(_, _)
ParseHeaders(lines, m) ==
    IF lines = <<>> THEN m
    ELSE LET Header(line, colon_pos) ==
                 IF colon_pos = npos THEN m
                 ELSE MapPut(m, Trim(Substr(line, 0, colon_pos)),
                                Trim(SubstrFrom(line, colon_pos + 1)))
         IN  ParseHeaders(Tail(lines), Header(Head(lines), Find(Head(lines), <<58>> (* ":" *), 0)))

\* body += body_line + "\n" for every line, then pop_back
RECURSIVE JoinLines(_)
JoinLines(lines) ==
    IF lines = <<>> THEN <<>>
    ELSE IF Len(lines) = 1 THEN lines[1]
    ELSE lines[1] \o <<10>> \o JoinLines(Tail(lines))

\* how many of `lines` the header loop reads as headers: up to the first
\* line that is "\r" or empty
HeaderCount(lines) ==
    LET Count(end) == IF end = npos THEN Len(lines) ELSE end - 1
    IN  Count(FirstHit({k \in 1..Len(lines) : lines[k] = <<13>> \/ lines[k] = <<>>}))

parse_request(request_str, uninit) ==
    LET WithParts(request, parts) ==
            [request EXCEPT !.form_data = parts.form_data, !.files = parts.files]
        Forms(request, content_type) ==
            IF Find(content_type, <<109,117,108,116,105,112,97,114,116,47,102,111,114,109,45,100,97,116,97>> (* "multipart/form-data" *), 0) # npos
            THEN IF Find(content_type, <<98,111,117,110,100,97,114,121,61>> (* "boundary=" *), 0) # npos
                 THEN WithParts(request,
                          parse_multipart_form_data(request.body, BoundaryOf(content_type)))
                 ELSE request
            ELSE IF Find(content_type, <<97,112,112,108,105,99,97,116,105,111,110,47,120,45,119,119,119,45,102,111,114,109,45,117,114,108,101,110,99,111,100,101,100>> (* "application/x-www-form-urlencoded" *), 0) # npos
            THEN [request EXCEPT
                     !.form_data = parse_url_encoded_form_data(request.body, uninit)]
            ELSE request
        Body(request) ==
            IF <<67,111,110,116,101,110,116,45,84,121,112,101>> (* "Content-Type" *) \in DOMAIN request.headers
            THEN Forms(request, request.headers[<<67,111,110,116,101,110,116,45,84,121,112,101>> (* "Content-Type" *)])
            ELSE request
        Headers(request, rest, nh) ==
            Body([request EXCEPT
                     !.headers = ParseHeaders(SubSeq(rest, 1, nh), EmptyMap),
                     !.body = JoinLines(SubSeq(rest, nh + 2, Len(rest)))])
        Query(toks, path, query_pos, rest) ==
            Headers([method |-> IF Len(toks) >= 1 THEN toks[1] ELSE <<>>,
                     path |-> IF query_pos # npos THEN Substr(path, 0, query_pos) ELSE path,
                     version |-> IF Len(toks) >= 3 THEN toks[3] ELSE <<>>,
                     headers |-> EmptyMap,
                     body |-> <<>>,
                     query_params |->
                         IF query_pos # npos
                         THEN DecodePairs(SplitOn(SubstrFrom(path, query_pos + 1), 38),
                                          EmptyMap, uninit)
                         ELSE EmptyMap,
                     form_data |-> EmptyMap,
                     files |-> EmptyMap],
                    rest, HeaderCount(rest))
        Target(toks, path, rest) == Query(toks, path, Find(path, <<63>> (* "?" *), 0), rest)
        RequestLine(toks, rest) ==
            Target(toks, IF Len(toks) >= 2 THEN toks[2] ELSE <<>>, rest)
        Lines(lines) ==
            RequestLine(IF lines = <<>> THEN <<>> ELSE Tokens(lines[1]),
                        IF lines = <<>> THEN <<>> ELSE Tail(lines))
    IN  Lines(SplitOn(request_str, 10))

(***************************************************************************)
(* HttpResponse, the send_* utilities and build_response                   *)
(***************************************************************************)
\* HttpResponse(): status_code(200), status_text("OK"), is_binary(false)
NewResponse ==
    [status_code |-> 200, status_text |-> <<79,75>> (* "OK" *), headers |-> EmptyMap,
     body |-> <<>>, binary_data |-> <<>>, is_binary |-> FALSE]

send_json_response(response, json, status) ==
    [response EXCEPT
        !.status_code = status,
        !.status_text = IF status = 200 THEN <<79,75>> (* "OK" *)
                        ELSE IF status = 201 THEN <<67,114,101,97,116,101,100>> (* "Created" *) ELSE <<69,114,114,111,114>> (* "Error" *),
        !.headers = MapPut(MapPut(@, <<67,111,110,116,101,110,116,45,84,121,112,101>> (* "Content-Type" *), <<97,112,112,108,105,99,97,116,105,111,110,47,106,115,111,110>> (* "application/json" *)),
                           <<65,99,99,101,115,115,45,67,111,110,116,114,111,108,45,65,108,108,111,119,45,79,114,105,103,105,110>> (* "Access-Control-Allow-Origin" *), <<42>> (* "*" *)),
        !.body = json]

\* send_error_response leaving out the Access-Control-Allow-Origin header
send_error_response_no_origin(response, status, message) ==
    [response EXCEPT
        !.status_code = status,
        !.status_text = message,
        !.headers = MapPut(@, <<67,111,110,116,101,110,116,45,84,121,112,101>> (* "Content-Type" *), <<97,112,112,108,105,99,97,116,105,111,110,47,106,115,111,110>> (* "application/json" *)),
        !.body = <<123,34,101,114,114,111,114,34,58,34>> (* "{\"error\":\"" *) \o message \o <<34,125>> (* "\"}" *)]

send_error_response(response, status, message) ==
    [response EXCEPT
        !.status_code = status,
        !.status_text = message,
        !.headers = MapPut(MapPut(@, <<67,111,110,116,101,110,116,45,84,121,112,101>> (* "Content-Type" *), <<97,112,112,108,105,99,97,116,105,111,110,47,106,115,111,110>> (* "application/json" *)),
                           <<65,99,99,101,115,115,45,67,111,110,116,114,111,108,45,65,108,108,111,119,45,79,114,105,103,105,110>> (* "Access-Control-Allow-Origin" *), <<42>> (* "*" *)),
        !.body = <<123,34,101,114,114,111,114,34,58,34>> (* "{\"error\":\"" *) \o message \o <<34,125>> (* "\"}" *)]

\* ::tolower on every byte
ToLower(s) == [i \in 1..Len(s) |-> IF s[i] \in 65..90 THEN s[i] + 32 ELSE s[i]]

\* s.find_last_of(c)
FindLastOf(s, c) == LastHit({i \in 0..(Len(s) - 1) : s[i + 1] = c})

get_content_type(filename) ==
    LET Type(ext) ==
            IF ext = <<104,116,109,108>> (* "html" *) \/ ext = <<104,116,109>> (* "htm" *) THEN <<116,101,120,116,47,104,116,109,108>> (* "text/html" *)
            ELSE IF ext = <<99,115,115>> (* "css" *) THEN <<116,101,120,116,47,99,115,115>> (* "text/css" *)
            ELSE IF ext = <<106,115>> (* "js" *) THEN <<97,112,112,108,105,99,97,116,105,111,110,47,106,97,118,97,115,99,114,105,112,116>> (* "application/javascript" *)
            ELSE IF ext = <<106,115,111,110>> (* "json" *) THEN <<97,112,112,108,105,99,97,116,105,111,110,47,106,115,111,110>> (* "application/json" *)
            ELSE IF ext = <<112,110,103>> (* "png" *) THEN <<105,109,97,103,101,47,112,110,103>> (* "image/png" *)
            ELSE IF ext = <<106,112,103>> (* "jpg" *) \/ ext = <<106,112,101,103>> (* "jpeg" *) THEN <<105,109,97,103,101,47,106,112,101,103>> (* "image/jpeg" *)
            ELSE IF ext = <<103,105,102>> (* "gif" *) THEN <<105,109,97,103,101,47,103,105,102>> (* "image/gif" *)
            ELSE IF ext = <<112,100,102>> (* "pdf" *) THEN <<97,112,112,108,105,99,97,116,105,111,110,47,112,100,102>> (* "application/pdf" *)
            ELSE IF ext = <<116,120,116>> (* "txt" *) THEN <<116,101,120,116,47,112,108,97,105,110>> (* "text/plain" *)
            ELSE <<97,112,112,108,105,99,97,116,105,111,110,47,111,99,116,101,116,45,115,116,114,101,97,109>> (* "application/octet-stream" *)
    IN  Type(ToLower(SubstrFrom(filename, FindLastOf(filename, 46) + 1)))

\* std::filesystem::path(filepath).filename().string()
PathFilename(filepath) == SubstrFrom(filepath, FindLastOf(filepath, 47) + 1)

\* send_file_response when the file at filepath is (is_open) or is not
\* there, content being the bytes the file holds
send_file_response(response, filepath, is_open, content) ==
    LET Send(content_type) ==
            IF ~is_open THEN send_error_response(response, 404, <<70,105,108,101,32,110,111,116,32,102,111,117,110,100>> (* "File not found" *))
            ELSE IF content_type = <<116,101,120,116,47,104,116,109,108>> (* "text/html" *)
            THEN [response EXCEPT
                    !.is_binary = FALSE, !.status_code = 200, !.status_text = <<79,75>> (* "OK" *),
                    !.headers = MapPut(MapPut(@, <<67,111,110,116,101,110,116,45,84,121,112,101>> (* "Content-Type" *), content_type),
                                       <<65,99,99,101,115,115,45,67,111,110,116,114,111,108,45,65,108,108,111,119,45,79,114,105,103,105,110>> (* "Access-Control-Allow-Origin" *), <<42>> (* "*" *)),
                    !.body = content]
            ELSE [response EXCEPT
                    !.binary_data = content,
                    !.is_binary = TRUE, !.status_code = 200, !.status_text = <<79,75>> (* "OK" *),
                    !.headers = MapPut(MapPut(MapPut(@, <<67,111,110,116,101,110,116,45,84,121,112,101>> (* "Content-Type" *), content_type),
                                    <<67,111,110,116,101,110,116,45,68,105,115,112,111,115,105,116,105,111,110>> (* "Content-Disposition" *),
                                    <<97,116,116,97,99,104,109,101,110,116,59,32,102,105,108,101,110,97,109,101,61,34>> (* "attachment; filename=\"" *) \o PathFilename(filepath) \o <<34>> (* "\"" *)),
                                    <<65,99,99,101,115,115,45,67,111,110,116,114,111,108,45,65,108,108,111,119,45,79,114,105,103,105,110>> (* "Access-Control-Allow-Origin" *), <<42>> (* "*" *))]
    IN  Send(get_content_type(filepath))

\* the for loop over response.headers: "Key: Value\r\n" in map order
RECURSIVE HeaderLines(_, _)
HeaderLines(headers, keys) ==
    IF keys = <<>> THEN <<>>
    ELSE Head(keys) \o <<58,32>> (* ": " *) \o headers[Head(keys)] \o <<13,10>> (* "\r\n" *)
         \o HeaderLines(headers, Tail(keys))

\* build_response writing the text body whatever the binary flag says
build_response_with_body(response) ==
    <<72,84,84,80,47,49,46,49,32>> (* "HTTP/1.1 " *) \o to_string(response.status_code) \o <<32>> (* " " *)
        \o response.status_text \o <<13,10>> (* "\r\n" *)
    \o HeaderLines(response.headers, SortedKeys(DOMAIN response.headers))
    \o <<67,111,110,116,101,110,116,45,76,101,110,103,116,104,58,32>> (* "Content-Length: " *)
    \o (IF response.is_binary THEN to_string(Len(response.binary_data))
        ELSE to_string(Len(response.body)))
    \o <<13,10>> (* "\r\n" *) \o <<13,10>> (* "\r\n" *)
    \o response.body

build_response(response) ==
    <<72,84,84,80,47,49,46,49,32>> (* "HTTP/1.1 " *) \o to_string(response.status_code) \o <<32>> (* " " *)
        \o response.status_text \o <<13,10>> (* "\r\n" *)
    \o HeaderLines(response.headers, SortedKeys(DOMAIN response.headers))
    \o <<67,111,110,116,101,110,116,45,76,101,110,103,116,104,58,32>> (* "Content-Length: " *)
    \o (IF response.is_binary THEN to_string(Len(response.binary_data))
        ELSE to_string(Len(response.body)))
    \o <<13,10>> (* "\r\n" *) \o <<13,10>> (* "\r\n" *)
    \o (IF ~response.is_binary THEN response.body ELSE <<>>)

(***************************************************************************)
(* std::regex, as far as the patterns of the source use it: a pattern is   *)
(* compiled to tokens, "([^/]+)" to one token.  The model's templates hold *)
(* no regex operator but '.', so every other byte is a literal.            *)
(***************************************************************************)
SegGroup == <<40,91,94,47,93,43,41>> (* "([^/]+)" *)

\* std::regex_replace(pattern, R"(\{[^}]+\})", "([^/]+)") from position i
RECURSIVE RegexReplaceParams(_, _)
RegexReplaceParams(pattern, i) ==
    LET Param(close) ==
            IF pattern[i + 1] = 123 /\ close # npos /\ close >= i + 2
            THEN SegGroup \o RegexReplaceParams(pattern, close + 1)
            ELSE <<pattern[i + 1]>> \o RegexReplaceParams(pattern, i + 1)
    IN  IF i >= Len(pattern) THEN <<>>
        ELSE Param(Find(pattern, <<125>> (* "}" *), i + 1))

\* std::regex(regex_pattern): the tokens of the pattern from position i
RECURSIVE RegexCompile(_, _)
RegexCompile(re, i) ==
    IF i >= Len(re) THEN <<>>
    ELSE IF MatchAt(re, SegGroup, i)
         THEN <<[t |-> "seg", c |-> 0]>> \o RegexCompile(re, i + Len(SegGroup))
    ELSE IF re[i + 1] = 94 THEN <<[t |-> "bol", c |-> 0]>> \o RegexCompile(re, i + 1)
    ELSE IF re[i + 1] = 36 THEN <<[t |-> "eol", c |-> 0]>> \o RegexCompile(re, i + 1)
    ELSE IF re[i + 1] = 46 THEN <<[t |-> "any", c |-> 0]>> \o RegexCompile(re, i + 1)
    ELSE <<[t |-> "lit", c |-> re[i + 1]]>> \o RegexCompile(re, i + 1)

\* whether tokens ti.. match s from position si to its end
RECURSIVE RegexAt(_, _, _, _)
RegexAt(toks, s, ti, si) ==
    IF ti > Len(toks) THEN si = Len(s)
    ELSE LET tok == toks[ti]
         IN  CASE tok.t = "bol" -> si = 0 /\ RegexAt(toks, s, ti + 1, si)
               [] tok.t = "eol" -> si = Len(s) /\ RegexAt(toks, s, ti + 1, si)
               [] tok.t = "lit" -> /\ si < Len(s)
                                   /\ s[si + 1] = tok.c
                                   /\ RegexAt(toks, s, ti + 1, si + 1)
               [] tok.t = "any" -> /\ si < Len(s)
                                   /\ s[si + 1] \notin {10, 13}
                                   /\ RegexAt(toks, s, ti + 1, si + 1)
               [] tok.t = "seg" ->
                    \E k \in 1..(Len(s) - si) :
                        /\ \A j \in 1..k : s[si + j] # 47
                        /\ RegexAt(toks, s, ti + 1, si + k)

\* std::regex_match(s, matches, std::regex(re))
regex_match(s, re) == RegexAt(RegexCompile(re, 0), s, 1, 0)

\* matches[1], matches[2], ... of a successful regex_match: every group
\* takes the longest run that lets the rest match
RECURSIVE RegexGroups(_, _, _, _)
RegexGroups(toks, s, ti, si) ==
    IF ti > Len(toks) THEN <<>>
    ELSE LET Group(kmax) ==
                 <<Substr(s, si, kmax)>> \o RegexGroups(toks, s, ti + 1, si + kmax)
         IN  IF toks[ti].t = "seg"
             THEN Group(Greatest({k \in 1..(Len(s) - si) :
                                     /\ \A j \in 1..k : s[si + j] # 47
                                     /\ RegexAt(toks, s, ti + 1, si + k)}))
             ELSE IF toks[ti].t \in {"bol", "eol"} THEN RegexGroups(toks, s, ti + 1, si)
             ELSE RegexGroups(toks, s, ti + 1, si + 1)

regex_groups(s, re) == RegexGroups(RegexCompile(re, 0), s, 1, 0)

\* lines 252-262 of handle_client: whether the route template `pattern`
\* matches the request path
RouteMatches(pattern, path) ==
    regex_match(path, <<94>> (* "^" *) \o RegexReplaceParams(pattern, 0) \o <<36>> (* "$" *))

extract_filename_from_path(path) ==
    IF regex_match(path, <<47,97,112,105,47,102,105,108,101,115,47,100,111,119,110,108,111,97,100,47,40,91,94,47,93,43,41>> (* "/api/files/download/([^/]+)" *))
    THEN regex_groups(path, <<47,97,112,105,47,102,105,108,101,115,47,100,111,119,110,108,111,97,100,47,40,91,94,47,93,43,41>> (* "/api/files/download/([^/]+)" *))[1]
    ELSE <<>>

(***************************************************************************)
(* DataStore: data maps a collection to a map from id to item              *)
(***************************************************************************)
HasItem(data, collection, id) ==
    collection \in DOMAIN data /\ id \in DOMAIN data[collection]

\* data[collection][id] = item, creating the collection when it is new
StorePut(data, collection, id, item) ==
    MapPut(data, collection,
           MapPut(IF collection \in DOMAIN data THEN data[collection] ELSE EmptyMap,
                  id, item))

DataStore_create(data, next_id, collection, item) ==
    LET Created(id) ==
            [id |-> id, next_id |-> next_id + 1,
             data |-> StorePut(data, collection, id, MapPut(item, <<105,100>> (* "id" *), id))]
    IN  Created(to_string(next_id))

DataStore_read(data, collection, id) ==
    IF HasItem(data, collection, id) THEN data[collection][id] ELSE EmptyMap

\* the items of the collection in the order of its map: by id, as text
DataStore_read_all(data, collection) ==
    LET Items(ids) == [i \in 1..Len(ids) |-> data[collection][ids[i]]]
    IN  IF collection \in DOMAIN data
        THEN Items(SortedKeys(DOMAIN data[collection]))
        ELSE <<>>

\* an update that files the item also when the id is not in the collection
DataStore_update_inserting(data, collection, id, item) ==
    [ok |-> HasItem(data, collection, id),
     data |-> StorePut(data, collection, id, MapPut(item, <<105,100>> (* "id" *), id))]

DataStore_update(data, collection, id, item) ==
    IF HasItem(data, collection, id)
    THEN [ok |-> TRUE, data |-> StorePut(data, collection, id, MapPut(item, <<105,100>> (* "id" *), id))]
    ELSE [ok |-> FALSE, data |-> data]

DataStore_remove(data, collection, id) ==
    IF HasItem(data, collection, id)
    THEN [ok |-> TRUE,
          data |-> [data EXCEPT ![collection] =
                       [k \in DOMAIN @ \ {id} |-> @[k]]]]
    ELSE [ok |-> FALSE, data |-> data]

(***************************************************************************)
(* The built-in route handlers.  env is what a handler reads and writes    *)
(* besides the request: the DataStore (data, next_id), the uploads         *)
(* directory (uploads_dir: whether it exists, uploads: file name to        *)
(* bytes), client_html (the bytes of client.html, or NoFile), and          *)
(* listing (the order in which directory_iterator yields the names).       *)
(* A handler yields the response and the env it leaves.                    *)
(***************************************************************************)
NoFile == <<0 - 1>>

RemoveChars(s, set) == SelectSeq(s, LAMBDA c : c \notin set)

\* the pair loop of the "simple JSON-like parsing" of create and update
RECURSIVE JsonPairs(_, _)
JsonPairs(pairs, item) ==
    IF pairs = <<>> THEN item
    ELSE LET Pair(pair, colon_pos) ==
                 IF colon_pos = npos THEN item
                 ELSE MapPut(item,
                             RemoveChars(Substr(pair, 0, colon_pos), {34, 32, 9}),
                             RemoveChars(SubstrFrom(pair, colon_pos + 1), {34, 32, 9}))
         IN  JsonPairs(Tail(pairs), Pair(Head(pairs), Find(Head(pairs), <<58>> (* ":" *), 0)))

\* the item create and update take from the request: the form fields, or
\* else the body between its first and last byte split at ',' and ':'
ItemOf(request) ==
    IF request.form_data # EmptyMap THEN request.form_data
    ELSE IF Find(request.body, <<123>> (* "{" *), 0) # npos /\ Find(request.body, <<125>> (* "}" *), 0) # npos
    THEN JsonPairs(SplitOn(Substr(request.body, 1, Len(request.body) - 2), 44), EmptyMap)
    ELSE EmptyMap

\* "k":"v" for every pair of the item in map order, joined by ','
RECURSIVE JsonFields(_, _)
JsonFields(item, keys) ==
    IF keys = <<>> THEN <<>>
    ELSE <<34>> (* "\"" *) \o Head(keys) \o <<34,58,34>> (* "\":\"" *) \o item[Head(keys)] \o <<34>> (* "\"" *)
         \o (IF Len(keys) > 1 THEN <<44>> (* "," *) ELSE <<>>)
         \o JsonFields(item, Tail(keys))

JsonObject(item) == <<123>> (* "{" *) \o JsonFields(item, SortedKeys(DOMAIN item)) \o <<125>> (* "}" *)

RECURSIVE JsonObjects(_)
JsonObjects(items) ==
    IF items = <<>> THEN <<>>
    ELSE JsonObject(Head(items)) \o (IF Len(items) > 1 THEN <<44>> (* "," *) ELSE <<>>)
         \o JsonObjects(Tail(items))

StatusJson(id, status) ==
    <<123,34,105,100,34,58,34>> (* "{\"id\":\"" *) \o id \o <<34,44,34,115,116,97,116,117,115,34,58,34>> (* "\",\"status\":\"" *) \o status \o <<34,125>> (* "\"}" *)

CollectionRe == <<47,97,112,105,47,100,97,116,97,47,40,91,94,47,93,43,41>> (* "/api/data/([^/]+)" *)
ItemRe == <<47,97,112,105,47,100,97,116,97,47,40,91,94,47,93,43,41,47,40,91,94,47,93,43,41>> (* "/api/data/([^/]+)/([^/]+)" *)

handle_crud_create(request, response, env) ==
    LET Created(made) ==
            [response |-> send_json_response(response, StatusJson(made.id, <<99,114,101,97,116,101,100>> (* "created" *)), 201),
             env |-> [env EXCEPT !.data = made.data, !.next_id = made.next_id]]
        Create(collection) ==
            Created(DataStore_create(env.data, env.next_id, collection, ItemOf(request)))
    IN  IF regex_match(request.path, CollectionRe)
        THEN Create(regex_groups(request.path, CollectionRe)[1])
        ELSE [response |-> send_error_response(response, 400, <<73,110,118,97,108,105,100,32,99,111,108,108,101,99,116,105,111,110,32,112,97,116,104>> (* "Invalid collection path" *)),
              env |-> env]

handle_crud_read(request, response, env) ==
    LET Found(item) ==
            [response |-> IF item # EmptyMap
                          THEN send_json_response(response, JsonObject(item), 200)
                          ELSE send_error_response(response, 404, <<73,116,101,109,32,110,111,116,32,102,111,117,110,100>> (* "Item not found" *)),
             env |-> env]
        Read(matches) == Found(DataStore_read(env.data, matches[1], matches[2]))
    IN  IF regex_match(request.path, ItemRe)
        THEN Read(regex_groups(request.path, ItemRe))
        ELSE [response |-> send_error_response(response, 400, <<73,110,118,97,108,105,100,32,105,116,101,109,32,112,97,116,104>> (* "Invalid item path" *)),
              env |-> env]

handle_crud_read_all(request, response, env) ==
    IF regex_match(request.path, CollectionRe)
    THEN [response |->
              send_json_response(response,
                  <<91>> (* "[" *) \o JsonObjects(DataStore_read_all(env.data,
                              regex_groups(request.path, CollectionRe)[1])) \o <<93>> (* "]" *),
                  200),
          env |-> env]
    ELSE [response |-> send_error_response(response, 400, <<73,110,118,97,108,105,100,32,99,111,108,108,101,99,116,105,111,110,32,112,97,116,104>> (* "Invalid collection path" *)),
          env |-> env]

handle_crud_update(request, response, env) ==
    LET Updated(id, upd) ==
            [response |-> IF upd.ok
                          THEN send_json_response(response, StatusJson(id, <<117,112,100,97,116,101,100>> (* "updated" *)), 200)
                          ELSE send_error_response(response, 404, <<73,116,101,109,32,110,111,116,32,102,111,117,110,100>> (* "Item not found" *)),
             env |-> [env EXCEPT !.data = upd.data]]
        Update(matches) ==
            Updated(matches[2],
                    DataStore_update(env.data, matches[1], matches[2], ItemOf(request)))
    IN  IF regex_match(request.path, ItemRe)
        THEN Update(regex_groups(request.path, ItemRe))
        ELSE [response |-> send_error_response(response, 400, <<73,110,118,97,108,105,100,32,105,116,101,109,32,112,97,116,104>> (* "Invalid item path" *)),
              env |-> env]

handle_crud_delete(request, response, env) ==
    LET Deleted(id, del) ==
            [response |-> IF del.ok
                          THEN send_json_response(response, StatusJson(id, <<100,101,108,101,116,101,100>> (* "deleted" *)), 200)
                          ELSE send_error_response(response, 404, <<73,116,101,109,32,110,111,116,32,102,111,117,110,100>> (* "Item not found" *)),
             env |-> [env EXCEPT !.data = del.data]]
        Delete(matches) ==
            Deleted(matches[2], DataStore_remove(env.data, matches[1], matches[2]))
    IN  IF regex_match(request.path, ItemRe)
        THEN Delete(regex_groups(request.path, ItemRe))
        ELSE [response |-> send_error_response(response, 400, <<73,110,118,97,108,105,100,32,105,116,101,109,32,112,97,116,104>> (* "Invalid item path" *)),
              env |-> env]

\* the loop of handle_file_upload over request.files in map order: every
\* file whose stream opens is written to uploads/ and listed in the answer
RECURSIVE UploadLoop(_, _, _, _, _)
UploadLoop(files, keys, env, json, first) ==
    IF keys = <<>> THEN [env |-> env, json |-> json]
    ELSE LET Write(file_data) ==
                 IF env.uploads_dir /\ Find(file_data.filename, <<47>> (* "/" *), 0) = npos
                 THEN UploadLoop(files, Tail(keys),
                          [env EXCEPT !.uploads = MapPut(@, file_data.filename, file_data.data)],
                          json \o (IF first THEN <<>> ELSE <<44>> (* "," *))
                               \o <<123,34,102,105,108,101,110,97,109,101,34,58,34>> (* "{\"filename\":\"" *) \o file_data.filename
                               \o <<34,44,34,115,116,97,116,117,115,34,58,34,117,112,108,111,97,100,101,100,34,125>> (* "\",\"status\":\"uploaded\"}" *),
                          FALSE)
                 ELSE UploadLoop(files, Tail(keys), env, json, first)
         IN  Write(files[Head(keys)])

handle_file_upload(request, response, env) ==
    LET Uploaded(done) ==
            [response |-> send_json_response(response, done.json \o <<93,125>> (* "]}" *), 201),
             env |-> done.env]
    IN  IF request.files = EmptyMap /\ request.form_data = EmptyMap
        THEN [response |-> send_error_response(response, 400,
                    <<78,111,32,102,105,108,101,115,32,111,114,32,102,111,114,109,32,100,97,116,97,32,102,111,117,110,100,46,32,67,111,110,116,101,110,116,45,84,121,112,101,58,32>> (* "No files or form data found. Content-Type: " *)
                    \o (IF <<67,111,110,116,101,110,116,45,84,121,112,101>> (* "Content-Type" *) \in DOMAIN request.headers
                        THEN request.headers[<<67,111,110,116,101,110,116,45,84,121,112,101>> (* "Content-Type" *)] ELSE <<109,105,115,115,105,110,103>> (* "missing" *))
                    \o <<44,32,66,111,100,121,32,115,105,122,101,58,32>> (* ", Body size: " *) \o to_string(Len(request.body))),
              env |-> env]
        ELSE IF request.files = EmptyMap
        THEN [response |-> send_error_response(response, 400, <<78,111,32,102,105,108,101,115,32,117,112,108,111,97,100,101,100>> (* "No files uploaded" *)),
              env |-> env]
        ELSE Uploaded(UploadLoop(request.files, SortedKeys(DOMAIN request.files),
                                 env, <<123,34,117,112,108,111,97,100,101,100,95,102,105,108,101,115,34,58,91>> (* "{\"uploaded_files\":[" *), TRUE))

handle_file_download(request, response, env) ==
    LET Send(filename, is_open) ==
            [response |->
                IF filename = <<>>
                THEN send_error_response(response, 400, <<73,110,118,97,108,105,100,32,102,105,108,101,110,97,109,101>> (* "Invalid filename" *))
                ELSE send_file_response(response, <<117,112,108,111,97,100,115,47>> (* "uploads/" *) \o filename, is_open,
                                        IF is_open THEN env.uploads[filename] ELSE <<>>),
             env |-> env]
        Download(filename) ==
            Send(filename, env.uploads_dir /\ filename \in DOMAIN env.uploads)
    IN  Download(extract_filename_from_path(request.path))

\* "name" for every name the directory iterator yields, joined by ','
RECURSIVE JsonNames(_)
JsonNames(names) ==
    IF names = <<>> THEN <<>>
    ELSE <<34>> (* "\"" *) \o Head(names) \o <<34>> (* "\"" *) \o (IF Len(names) > 1 THEN <<44>> (* "," *) ELSE <<>>)
         \o JsonNames(Tail(names))

\* a missing uploads directory makes directory_iterator throw: the handler
\* creates the directory and answers the empty list
handle_file_list(request, response, env) ==
    [response |-> send_json_response(response,
                      <<123,34,102,105,108,101,115,34,58,91>> (* "{\"files\":[" *)
                      \o (IF env.uploads_dir THEN JsonNames(env.listing) ELSE <<>>)
                      \o <<93,125>> (* "]}" *), 200),
     env |-> [env EXCEPT !.uploads_dir = TRUE]]

handle_client_page(request, response, env) ==
    [response |-> send_file_response(response, <<99,108,105,101,110,116,46,104,116,109,108>> (* "client.html" *),
                      env.client_html # NoFile, env.client_html),
     env |-> env]

(***************************************************************************)
(* The route table: std::map<method, std::map<path template, handler>>     *)
(***************************************************************************)
add_route(routes, method, path, handler) ==
    MapPut(routes, method,
           MapPut(IF method \in DOMAIN routes THEN routes[method] ELSE EmptyMap,
                  path, handler))

\* a built-in table in which the client page is served under a template
\* that also matches /api/files
DefaultRoutesOverlapping ==
    << <<<<80,79,83,84>> (* "POST" *), <<47,97,112,105,47,100,97,116,97,47,123,99,111,108,108,101,99,116,105,111,110,125>> (* "/api/data/{collection}" *), "handle_crud_create">>,
       <<<<71,69,84>> (* "GET" *), <<47,97,112,105,47,100,97,116,97,47,123,99,111,108,108,101,99,116,105,111,110,125,47,123,105,100,125>> (* "/api/data/{collection}/{id}" *), "handle_crud_read">>,
       <<<<71,69,84>> (* "GET" *), <<47,97,112,105,47,100,97,116,97,47,123,99,111,108,108,101,99,116,105,111,110,125>> (* "/api/data/{collection}" *), "handle_crud_read_all">>,
       <<<<80,85,84>> (* "PUT" *), <<47,97,112,105,47,100,97,116,97,47,123,99,111,108,108,101,99,116,105,111,110,125,47,123,105,100,125>> (* "/api/data/{collection}/{id}" *), "handle_crud_update">>,
       <<<<68,69,76,69,84,69>> (* "DELETE" *), <<47,97,112,105,47,100,97,116,97,47,123,99,111,108,108,101,99,116,105,111,110,125,47,123,105,100,125>> (* "/api/data/{collection}/{id}" *), "handle_crud_delete">>,
       <<<<80,79,83,84>> (* "POST" *), <<47,97,112,105,47,102,105,108,101,115,47,117,112,108,111,97,100>> (* "/api/files/upload" *), "handle_file_upload">>,
       <<<<71,69,84>> (* "GET" *), <<47,97,112,105,47,102,105,108,101,115,47,100,111,119,110,108,111,97,100,47,123,102,105,108,101,110,97,109,101,125>> (* "/api/files/download/{filename}" *), "handle_file_download">>,
       <<<<71,69,84>> (* "GET" *), <<47,97,112,105,47,102,105,108,101,115>> (* "/api/files" *), "handle_file_list">>,
       <<<<71,69,84>> (* "GET" *), <<47,97,112,105,47,123,115,101,99,116,105,111,110,125>> (* "/api/{section}" *), "handle_client_page">> >>

DefaultRoutes ==
    << <<<<80,79,83,84>> (* "POST" *), <<47,97,112,105,47,100,97,116,97,47,123,99,111,108,108,101,99,116,105,111,110,125>> (* "/api/data/{collection}" *), "handle_crud_create">>,
       <<<<71,69,84>> (* "GET" *), <<47,97,112,105,47,100,97,116,97,47,123,99,111,108,108,101,99,116,105,111,110,125,47,123,105,100,125>> (* "/api/data/{collection}/{id}" *), "handle_crud_read">>,
       <<<<71,69,84>> (* "GET" *), <<47,97,112,105,47,100,97,116,97,47,123,99,111,108,108,101,99,116,105,111,110,125>> (* "/api/data/{collection}" *), "handle_crud_read_all">>,
       <<<<80,85,84>> (* "PUT" *), <<47,97,112,105,47,100,97,116,97,47,123,99,111,108,108,101,99,116,105,111,110,125,47,123,105,100,125>> (* "/api/data/{collection}/{id}" *), "handle_crud_update">>,
       <<<<68,69,76,69,84,69>> (* "DELETE" *), <<47,97,112,105,47,100,97,116,97,47,123,99,111,108,108,101,99,116,105,111,110,125,47,123,105,100,125>> (* "/api/data/{collection}/{id}" *), "handle_crud_delete">>,
       <<<<80,79,83,84>> (* "POST" *), <<47,97,112,105,47,102,105,108,101,115,47,117,112,108,111,97,100>> (* "/api/files/upload" *), "handle_file_upload">>,
       <<<<71,69,84>> (* "GET" *), <<47,97,112,105,47,102,105,108,101,115,47,100,111,119,110,108,111,97,100,47,123,102,105,108,101,110,97,109,101,125>> (* "/api/files/download/{filename}" *), "handle_file_download">>,
       <<<<71,69,84>> (* "GET" *), <<47,97,112,105,47,102,105,108,101,115>> (* "/api/files" *), "handle_file_list">>,
       <<<<71,69,84>> (* "GET" *), <<47>> (* "/" *), "handle_client_page">> >>

RECURSIVE AddRoutes(_, _)
AddRoutes(routes, list) ==
    IF list = <<>> THEN routes
    ELSE AddRoutes(add_route(routes, list[1][1], list[1][2], list[1][3]), Tail(list))

setup_default_routes(routes) == AddRoutes(routes, DefaultRoutes)

\* the inner loop of handle_client over the routes of one method, in the
\* order of the inner map: the handlers it invokes (it breaks at the first
\* template that matches)
RECURSIVE RouteLoop(_, _, _)
RouteLoop(method_routes, paths, path) ==
    IF paths = <<>> THEN <<>>
    ELSE IF RouteMatches(Head(paths), path) THEN <<method_routes[Head(paths)]>>
    ELSE RouteLoop(method_routes, Tail(paths), path)

\* the outer loop of handle_client over the methods of the table, in map
\* order: an entry whose key differs from request.method is skipped, and
\* the loop breaks once route_found is set
RECURSIVE MethodLoop(_, _, _, _)
MethodLoop(routes, methods, method, path) ==
    IF methods = <<>> THEN <<>>
    ELSE LET Next_method(invoked) ==
                 IF invoked # <<>> THEN invoked
                 ELSE MethodLoop(routes, Tail(methods), method, path)
         IN  Next_method(IF Head(methods) = method
                         THEN RouteLoop(routes[Head(methods)],
                                        SortedKeys(DOMAIN routes[Head(methods)]), path)
                         ELSE <<>>)

\* the route loop comparing the method without regard to case
DispatchAnyCase(routes, method, path) ==
    MethodLoop(routes, SortedKeys(DOMAIN routes),
               [i \in 1..Len(method) |->
                   IF method[i] \in 97..122 THEN method[i] - 32 ELSE method[i]],
               path)

\* the handlers handle_client invokes for a request, in order
Dispatch(routes, method, path) ==
    MethodLoop(routes, SortedKeys(DOMAIN routes), method, path)

\* route.second(request, response) for the built-in handlers
CallHandler(handler, request, response, env) ==
    CASE handler = "handle_crud_create" -> handle_crud_create(request, response, env)
      [] handler = "handle_crud_read" -> handle_crud_read(request, response, env)
      [] handler = "handle_crud_read_all" -> handle_crud_read_all(request, response, env)
      [] handler = "handle_crud_update" -> handle_crud_update(request, response, env)
      [] handler = "handle_crud_delete" -> handle_crud_delete(request, response, env)
      [] handler = "handle_file_upload" -> handle_file_upload(request, response, env)
      [] handler = "handle_file_download" -> handle_file_download(request, response, env)
      [] handler = "handle_file_list" -> handle_file_list(request, response, env)
      [] handler = "handle_client_page" -> handle_client_page(request, response, env)

\* the handlers of `invoked` called one after the other on the response
RECURSIVE CallHandlers(_, _, _, _)
CallHandlers(invoked, request, response, env) ==
    IF invoked = <<>> THEN [response |-> response, env |-> env]
    ELSE LET Then(ran) == CallHandlers(Tail(invoked), request, ran.response, ran.env)
         IN  Then(CallHandler(Head(invoked), request, response, env))

\* lines 245-276 of handle_client on the parsed request: dispatch, the
\* handler or the built-in 404, build_response
Serve(routes, request, env) ==
    LET Built(invoked, response, env_after) ==
            [invoked |-> invoked,
             route_found |-> invoked # <<>>,
             response |-> response,
             response_str |-> build_response(response),
             env |-> env_after]
        Answer(invoked, ran) ==
            Built(invoked,
                  IF invoked = <<>>
                  THEN send_error_response(ran.response, 404, <<78,111,116,32,70,111,117,110,100>> (* "Not Found" *))
                  ELSE ran.response,
                  ran.env)
        Routed(invoked) ==
            Answer(invoked, CallHandlers(invoked, request, NewResponse, env))
    IN  Routed(Dispatch(routes, request.method, request.path))

(***************************************************************************)
(* The server: start(), the accept loop and handle_client                  *)
(***************************************************************************)
VARIABLES
    running,        \* HttpServer::running
    routes,         \* HttpServer::routes
    data,           \* DataStore::data
    next_id,        \* DataStore::next_id
    uploads_dir,    \* whether the directory uploads/ exists
    uploads,        \* the files of uploads/: name -> bytes
    pc,             \* where the handler of the current connection stands
    wire,           \* what the peer of the current connection has to send
    sent,           \* how many bytes of it recv() has delivered
    peer_open,      \* FALSE once the peer has closed its end
    request_str,    \* handle_client's request_str
    body_received,  \* handle_client's body_received
    content_length, \* handle_client's content_length
    request,        \* the HttpRequest parse_request returned
    response,       \* the HttpResponse
    response_str,   \* build_response(response)
    invoked,        \* the route handlers called for this connection
    route_found,    \* handle_client's route_found
    out,            \* send() and close() calls on the client socket, in order
    str,            \* a string before it is percent-encoded
    encoded,        \* url_decode's argument
    decoded,        \* url_decode's result
    registered,     \* the add_route calls made so far, in order
    parts,          \* the parts a multipart body is made of
    server_socket,  \* HttpServer::server_socket
    worker_threads, \* HttpServer::worker_threads: the threads emplaced, in order
    listener,       \* the thread inside start(): its position
    stopper,        \* the thread inside stop(): its position
    handlers,       \* the connection threads: position and socket calls of each
    err,            \* what has been written to std::cerr
    data_mutex,     \* DataStore::data_mutex: the thread that holds it, or 0
    callers,        \* the threads inside a DataStore operation: call, position, locals
    closes          \* the descriptors start() and stop() have called close() on, in order

vars == <<running, routes, data, next_id, uploads_dir, uploads, pc,
          wire, sent, peer_open, request_str, body_received, content_length,
          request, response, response_str, invoked, route_found, out,
          str, encoded, decoded, registered, parts,
          server_socket, worker_threads, listener, stopper, handlers, err,
          data_mutex, callers, closes>>

serverVars == <<running, routes>>
storeVars == <<data, next_id, uploads_dir, uploads>>
readVars == <<request_str, body_received, content_length>>
serveVars == <<request, response, response_str, invoked, route_found>>
aloneVars == <<str, encoded, decoded, registered, parts>>
lockVars == <<data_mutex, callers>>
threadVars == <<server_socket, worker_threads, listener, stopper, handlers, err, lockVars,
                closes>>

\* char buffer[8192]
BufferSize == 8192

\* values an uninitialized int may hold, as bytes
Garbage == {0, 198}

Bytes(w) == w.head \o w.body

\* the requests the peers send: head is the request line and headers up to
\* and with the blank line, declared the length its Content-Length header
\* states (-1: no such header, or a value that is no length)
Wires ==
    { [head |-> <<71,69,84,32,47,32,72,84,84,80,47,49,46,49,13,10,13,10>> (* "GET / HTTP/1.1\r\n\r\n" *), body |-> <<>>, declared |-> 0 - 1],
      [head |-> <<103,101,116,32,47,32,72,84,84,80,47,49,46,49,13,10,13,10>> (* "get / HTTP/1.1\r\n\r\n" *), body |-> <<>>, declared |-> 0 - 1],
      [head |-> <<71,69,84,32,47,110,111,112,101,32,72,84,84,80,47,49,46,49,13,10,13,10>> (* "GET /nope HTTP/1.1\r\n\r\n" *), body |-> <<>>, declared |-> 0 - 1],
      [head |-> <<71,69,84,32,47,97,112,105,47,102,105,108,101,115,32,72,84,84,80,47,49,46,49,13,10,13,10>> (* "GET /api/files HTTP/1.1\r\n\r\n" *), body |-> <<>>, declared |-> 0 - 1],
      [head |-> <<71,69,84,32,47,97,112,105,47,102,105,108,101,115,47,100,111,119,110,108,111,97,100,47,97,46,112,110,103,32,72,84,84,80,47,49,46,49,13,10,13,10>> (* "GET /api/files/download/a.png HTTP/1.1\r\n\r\n" *), body |-> <<>>,
       declared |-> 0 - 1],
      [head |-> <<71,69,84,32,47,97,112,105,47,102,105,108,101,115,47,100,111,119,110,108,111,97,100,47,101,46,98,105,110,32,72,84,84,80,47,49,46,49,13,10,13,10>> (* "GET /api/files/download/e.bin HTTP/1.1\r\n\r\n" *), body |-> <<>>,
       declared |-> 0 - 1],
      [head |-> <<71,69,84,32,47,97,112,105,47,100,97,116,97,47,117,47,49,32,72,84,84,80,47,49,46,49,13,10,13,10>> (* "GET /api/data/u/1 HTTP/1.1\r\n\r\n" *), body |-> <<>>, declared |-> 0 - 1],
      [head |-> <<71,69,84,32,47,97,112,105,47,100,97,116,97,47,117,32,72,84,84,80,47,49,46,49,13,10,13,10>> (* "GET /api/data/u HTTP/1.1\r\n\r\n" *), body |-> <<>>, declared |-> 0 - 1],
      [head |-> <<68,69,76,69,84,69,32,47,97,112,105,47,100,97,116,97,47,117,47,49,32,72,84,84,80,47,49,46,49,13,10,13,10>> (* "DELETE /api/data/u/1 HTTP/1.1\r\n\r\n" *), body |-> <<>>,
       declared |-> 0 - 1],
      [head |-> <<80,79,83,84,32,47,97,112,105,47,100,97,116,97,47,117,32,72,84,84,80,47,49,46,49,13,10,67,111,110,116,101,110,116,45,84,121,112,101,58,32,97,112,112,108,105,99,97,116,105,111,110,47,120,45,119,119,119,45,102,111,114,109,45,117,114,108,101,110,99,111,100,101,100,13,10,67,111,110,116,101,110,116,45,76,101,110,103,116,104,58,32,51,13,10,13,10>> (* "POST /api/data/u HTTP/1.1\r\nContent-Type: application/x-www-form-urlencoded\r\nContent-Length: 3\r\n\r\n" *),
       body |-> <<97,61,98>> (* "a=b" *), declared |-> 3],
      [head |-> <<80,85,84,32,47,97,112,105,47,100,97,116,97,47,117,47,49,32,72,84,84,80,47,49,46,49,13,10,67,111,110,116,101,110,116,45,76,101,110,103,116,104,58,32,57,13,10,13,10>> (* "PUT /api/data/u/1 HTTP/1.1\r\nContent-Length: 9\r\n\r\n" *),
       body |-> <<123,34,97,34,58,34,99,34,125>> (* "{\"a\":\"c\"}" *), declared |-> 9],
      [head |-> <<80,79,83,84,32,47,97,112,105,47,102,105,108,101,115,47,117,112,108,111,97,100,32,72,84,84,80,47,49,46,49,13,10,67,111,110,116,101,110,116,45,84,121,112,101,58,32,109,117,108,116,105,112,97,114,116,47,102,111,114,109,45,100,97,116,97,59,32,98,111,117,110,100,97,114,121,61,88,13,10,67,111,110,116,101,110,116,45,76,101,110,103,116,104,58,32,55,57,13,10,13,10>> (* "POST /api/files/upload HTTP/1.1\r\nContent-Type: multipart/form-data; boundary=X\r\nContent-Length: 79\r\n\r\n" *),
       body |-> <<45,45,88,13,10,67,111,110,116,101,110,116,45,68,105,115,112,111,115,105,116,105,111,110,58,32,102,111,114,109,45,100,97,116,97,59,32,110,97,109,101,61,34,102,34,59,32,102,105,108,101,110,97,109,101,61,34,97,46,112,110,103,34,13,10,13,10,80,78,71,13,10,45,45,88,45,45,13,10>> (* "--X\r\nContent-Disposition: form-data; name=\"f\"; filename=\"a.png\"\r\n\r\nPNG\r\n--X--\r\n" *),
       declared |-> 79],
      [head |-> <<80,79,83,84,32,47,97,112,105,47,102,105,108,101,115,47,117,112,108,111,97,100,32,72,84,84,80,47,49,46,49,13,10,67,111,110,116,101,110,116,45,84,121,112,101,58,32,109,117,108,116,105,112,97,114,116,47,102,111,114,109,45,100,97,116,97,59,32,98,111,117,110,100,97,114,121,61,88,13,10,67,111,110,116,101,110,116,45,76,101,110,103,116,104,58,32,54,52,13,10,13,10>> (* "POST /api/files/upload HTTP/1.1\r\nContent-Type: multipart/form-data; boundary=X\r\nContent-Length: 64\r\n\r\n" *),
       body |-> <<45,45,88,13,10,67,111,110,116,101,110,116,45,68,105,115,112,111,115,105,116,105,111,110,58,32,102,111,114,109,45,100,97,116,97,59,32,110,97,109,101,61,34,116,105,116,108,101,34,13,10,13,10,72,105,13,10,45,45,88,45,45,13,10>> (* "--X\r\nContent-Disposition: form-data; name=\"title\"\r\n\r\nHi\r\n--X--\r\n" *),
       declared |-> 64],
      [head |-> <<80,79,83,84,32,47,97,112,105,47,102,105,108,101,115,47,117,112,108,111,97,100,32,72,84,84,80,47,49,46,49,13,10,13,10>> (* "POST /api/files/upload HTTP/1.1\r\n\r\n" *), body |-> <<>>,
       declared |-> 0 - 1],
      [head |-> <<71,69,84,32,47,110,111,112,101,32,72,84,84,80,47,49,46,49,13,10,67,111,110,116,101,110,116,45,76,101,110,103,116,104,58,32,97,98,99,13,10,13,10>> (* "GET /nope HTTP/1.1\r\nContent-Length: abc\r\n\r\n" *), body |-> <<>>,
       declared |-> 0 - 1],
      [head |-> <<71,69,84,32,47,110,111,112,101,32,72,84,84,80,47,49,46,49,13,10,67,111,110,116,101,110,116,45,76,101,110,103,116,104,58,32,45,49,13,10,13,10>> (* "GET /nope HTTP/1.1\r\nContent-Length: -1\r\n\r\n" *), body |-> <<>>,
       declared |-> 0 - 1],
      [head |-> <<71,69,84,32,47,110,111,112,101,32,72,84,84,80,47,49,46,49,13,10,88,45,67,111,110,116,101,110,116,45,76,101,110,103,116,104,58,32,51,13,10,13,10>> (* "GET /nope HTTP/1.1\r\nX-Content-Length: 3\r\n\r\n" *), body |-> <<>>,
       declared |-> 0 - 1],
      [head |-> <<80,79,83,84,32,47,110,111,112,101,32,72,84,84,80,47,49,46,49,13,10,67,111,110,116,101,110,116,45,76,101,110,103,116,104,58,32,51,13,10,13,10>> (* "POST /nope HTTP/1.1\r\nContent-Length: 3\r\n\r\n" *), body |-> <<97, 0, 99>>,
       declared |-> 3] }

NoWire == [head |-> <<>>, body |-> <<>>, declared |-> 0 - 1]

\* client.html in the working directory: missing, or a page
ClientPages == {NoFile, <<60,104,116,109,108,62,60,47,104,116,109,108,62>> (* "<html></html>" *)}

\* std::string(buffer) of a buffer holding chunk and a terminating zero
CStr(chunk) ==
    LET Terminated(z) == IF z = npos THEN chunk ELSE Substr(chunk, 0, z)
    IN  Terminated(Find(chunk, <<0>>, 0))

\* a value no body length reaches: a size_t near its maximum
Huge == 2 ^ 30

\* std::stoul(s) inside the try block: 0 when it throws
RECURSIVE DigitsValue(_, _)
DigitsValue(s, acc) ==
    IF s = <<>> \/ s[1] \notin 48..57 THEN acc
    ELSE IF acc >= Huge \div 16 THEN Huge
    ELSE DigitsValue(Tail(s), 10 * acc + (s[1] - 48))

Stoul(s) ==
    LET Value(negative, digits) ==
            IF digits = <<>> \/ digits[1] \notin 48..57 THEN 0
            ELSE IF negative /\ DigitsValue(digits, 0) # 0 THEN Huge
            ELSE DigitsValue(digits, 0)
        Signed(t) ==
            IF t # <<>> /\ t[1] \in {43, 45} THEN Value(t[1] = 45, Tail(t))
            ELSE Value(FALSE, t)
    IN  Signed(EraseLeading(s, IsSpace))

\* lines 208-232 of handle_client on the first chunk: loop tells whether
\* the body loop is entered at all
ScanContentLength(s) ==
    LET Scan(content_length_pos, line_end, header_end) ==
            IF content_length_pos # npos /\ line_end # npos /\ header_end # npos
            THEN [loop |-> TRUE,
                  content_length |->
                      Stoul(Trim(Substr(s, content_length_pos + 15,
                                        line_end - content_length_pos - 15))),
                  body_received |-> Len(s) - (header_end + 4)]
            ELSE [loop |-> FALSE, content_length |-> 0, body_received |-> 0]
        Header(content_length_pos) ==
            Scan(content_length_pos, Find(s, <<13,10>> (* "\r\n" *), content_length_pos),
                 Find(s, <<13,10,13,10>> (* "\r\n\r\n" *), 0))
    IN  Header(Find(s, <<67,111,110,116,101,110,116,45,76,101,110,103,116,104,58>> (* "Content-Length:" *), 0))

\* every order in which a directory iterator may yield the names of S
Orders(S) ==
    {f \in [1..Cardinality(S) -> S] : \A i, j \in 1..Cardinality(S) : f[i] = f[j] => i = j}

NoRequest == parse_request(<<>>, 0)

ConnReset ==
    /\ sent' = 0
    /\ peer_open' = TRUE
    /\ request_str' = <<>>
    /\ body_received' = 0
    /\ content_length' = 0
    /\ request' = NoRequest
    /\ response' = NewResponse
    /\ response_str' = <<>>
    /\ invoked' = <<>>
    /\ route_found' = FALSE
    /\ out' = <<>>

\* what the uploads directory may hold when the server starts
UploadStates ==
    { [uploads_dir |-> FALSE, uploads |-> EmptyMap],
      [uploads_dir |-> TRUE, uploads |-> EmptyMap],
      [uploads_dir |-> TRUE,
       uploads |-> MapPut(MapPut(EmptyMap, <<97,46,112,110,103>> (* "a.png" *), <<80,78,71>> (* "PNG" *)), <<101,46,98,105,110>> (* "e.bin" *), <<>>)] }

\* the store as the connections served earlier may have left it: one item
\* created in collection u
EarlierStores ==
    { DataStore_create(EmptyMap, 1, <<117>> (* "u" *), MapPut(EmptyMap, <<97>> (* "a" *), <<98>> (* "b" *))) }

\* the descriptor socket() returns
ListenFd == 3

\* no thread is inside stop(): i is the position of its loop over
\* worker_threads, last the end of that loop, calls the number of stop()
\* calls begun
NotStopping == [pc |-> "idle", i |-> 0, last |-> 0, calls |-> 0]

\* HttpServer(port): server_socket(-1), running(false), an empty route table,
\* an empty store, no worker thread
ServerInit ==
    /\ running = FALSE
    /\ routes = EmptyMap
    /\ data = EmptyMap
    /\ next_id = 1
    /\ server_socket = 0 - 1
    /\ worker_threads = <<>>
    /\ listener = "idle"
    /\ stopper = NotStopping
    /\ handlers = <<>>
    /\ err = <<>>
    /\ data_mutex = 0
    /\ callers = <<>>
    /\ closes = <<>>

\* no connection accepted yet
ConnInit ==
    /\ wire = NoWire
    /\ sent = 0
    /\ peer_open = TRUE
    /\ request_str = <<>>
    /\ body_received = 0
    /\ content_length = 0
    /\ request = NoRequest
    /\ response = NewResponse
    /\ response_str = <<>>
    /\ invoked = <<>>
    /\ route_found = FALSE
    /\ out = <<>>

AloneInit ==
    /\ str = <<>>
    /\ encoded = <<>>
    /\ decoded = <<>>
    /\ registered = <<>>
    /\ parts = <<>>

Init ==
    /\ ServerInit
    /\ \E u \in UploadStates : uploads_dir = u.uploads_dir /\ uploads = u.uploads
    /\ pc = "stopped"
    /\ ConnInit
    /\ AloneInit

\* start() with socket, bind and listen succeeding
Start ==
    /\ pc = "stopped"
    /\ ~running
    /\ running' = TRUE
    /\ routes' = setup_default_routes(routes)
    /\ server_socket' = ListenFd
    /\ pc' = "accept"
    /\ UNCHANGED <<worker_threads, listener, stopper, handlers, err, lockVars, closes,
                   storeVars, wire, sent, peer_open, readVars, serveVars,
                   out, aloneVars>>

\* connections served before the one the model follows
EarlierConnections ==
    /\ pc = "accept"
    /\ data = EmptyMap
    /\ \E st \in EarlierStores : data' = st.data /\ next_id' = st.next_id
    /\ UNCHANGED <<threadVars, serverVars, uploads_dir, uploads, pc, wire, sent, peer_open,
                   readVars, serveVars, out, aloneVars>>

\* accept() returns the connection and its handler starts
Accept ==
    /\ pc = "accept"
    /\ running
    /\ \E w \in Wires : wire' = w
    /\ pc' = "recv"
    /\ ConnReset
    /\ UNCHANGED <<threadVars, serverVars, storeVars, aloneVars>>

\* the peer closes its end before the handler has read all it awaits
PeerClose ==
    /\ pc \in {"recv", "read_body"}
    /\ peer_open
    /\ peer_open' = FALSE
    /\ UNCHANGED <<threadVars, serverVars, storeVars, pc, wire, sent, readVars,
                   serveVars, out, aloneVars>>

\* the first recv() returns k bytes
RecvInitial ==
    /\ pc = "recv"
    /\ peer_open
    /\ \E k \in 1..Min(BufferSize - 1, Len(Bytes(wire)) - sent) :
         \E s \in {CStr(SubSeq(Bytes(wire), sent + 1, sent + k))} :
           \E scan \in {ScanContentLength(s)} :
             /\ sent' = sent + k
             /\ request_str' = s
             /\ content_length' = scan.content_length
             /\ body_received' = scan.body_received
             /\ pc' = IF scan.loop /\ scan.body_received < scan.content_length
                      THEN "read_body" ELSE "process"
    /\ UNCHANGED <<threadVars, serverVars, storeVars, wire, peer_open, serveVars,
                   out, aloneVars>>

\* the first recv() returns 0 or -1: close and return
RecvInitialClosed ==
    /\ pc = "recv"
    /\ ~peer_open
    /\ out' = Append(out, [op |-> "close", bytes |-> <<>>])
    /\ pc' = "done"
    /\ UNCHANGED <<threadVars, serverVars, storeVars, wire, sent, peer_open, readVars,
                   serveVars, aloneVars>>

\* one recv() of the body loop returns k bytes
RecvBody ==
    /\ pc = "read_body"
    /\ peer_open
    /\ \E k \in 1..Min(BufferSize - 1, Len(Bytes(wire)) - sent) :
         /\ sent' = sent + k
         /\ request_str' = request_str \o CStr(SubSeq(Bytes(wire), sent + 1, sent + k))
         /\ body_received' = body_received + k
         /\ pc' = IF body_received + k < content_length THEN "read_body" ELSE "process"
    /\ UNCHANGED <<threadVars, serverVars, storeVars, wire, peer_open, content_length,
                   serveVars, out, aloneVars>>

\* a body loop that does not break when recv() returns 0 or -1
RecvBodyClosedGoesOn ==
    /\ pc = "read_body"
    /\ ~peer_open
    /\ pc' = "read_body"
    /\ UNCHANGED <<threadVars, serverVars, storeVars, wire, sent, peer_open, readVars,
                   serveVars, out, aloneVars>>

\* one recv() of the body loop returns 0 or -1: break
RecvBodyClosed ==
    /\ pc = "read_body"
    /\ ~peer_open
    /\ pc' = "process"
    /\ UNCHANGED <<threadVars, serverVars, storeVars, wire, sent, peer_open, readVars,
                   serveVars, out, aloneVars>>

\* whether url_decode can meet a '%' followed by two whitespace bytes in s,
\* the one case in which it reads hex_value uninitialized
ReadsUninit(s) ==
    \E i \in 1..(Len(s) - 2) : s[i] = 37 /\ s[i + 1] \in IsSpace /\ s[i + 2] \in IsSpace

\* parse_request, the route loop, the handler, build_response
Process ==
    /\ pc = "process"
    /\ \E uninit \in (IF ReadsUninit(request_str) THEN Garbage ELSE {0}) :
         \E req \in {parse_request(request_str, uninit)} :
           \E client_html \in ClientPages, listing \in Orders(DOMAIN uploads) :
             \E r \in {Serve(routes, req,
                             [data |-> data, next_id |-> next_id,
                              uploads_dir |-> uploads_dir, uploads |-> uploads,
                              client_html |-> client_html, listing |-> listing])} :
               /\ request' = req
               /\ invoked' = r.invoked
               /\ route_found' = r.route_found
               /\ response' = r.response
               /\ response_str' = r.response_str
               /\ data' = r.env.data
               /\ next_id' = r.env.next_id
               /\ uploads_dir' = r.env.uploads_dir
               /\ uploads' = r.env.uploads
    /\ pc' = "send_head"
    /\ UNCHANGED <<threadVars, serverVars, wire, sent, peer_open, readVars, out, aloneVars>>

\* the binary payload written whenever the binary flag is set, empty or not
SendHeadFlagOnly ==
    /\ pc = "send_head"
    /\ out' = Append(out, [op |-> "send", bytes |-> response_str])
    /\ pc' = IF response.is_binary THEN "send_binary" ELSE "close"
    /\ UNCHANGED <<threadVars, serverVars, storeVars, wire, sent, peer_open, readVars,
                   serveVars, aloneVars>>

\* the response head sent twice
SendHeadTwice ==
    /\ pc = "send_head"
    /\ out' = out \o <<[op |-> "send", bytes |-> response_str],
                       [op |-> "send", bytes |-> response_str]>>
    /\ pc' = IF response.is_binary /\ response.binary_data # <<>>
             THEN "send_binary" ELSE "close"
    /\ UNCHANGED <<threadVars, serverVars, storeVars, wire, sent, peer_open, readVars,
                   serveVars, aloneVars>>

\* send(client_socket, response_str)
SendHead ==
    /\ pc = "send_head"
    /\ out' = Append(out, [op |-> "send", bytes |-> response_str])
    /\ pc' = IF response.is_binary /\ response.binary_data # <<>>
             THEN "send_binary" ELSE "close"
    /\ UNCHANGED <<threadVars, serverVars, storeVars, wire, sent, peer_open, readVars,
                   serveVars, aloneVars>>

\* send(client_socket, response.binary_data)
SendBinary ==
    /\ pc = "send_binary"
    /\ out' = Append(out, [op |-> "send_binary", bytes |-> response.binary_data])
    /\ pc' = "close"
    /\ UNCHANGED <<threadVars, serverVars, storeVars, wire, sent, peer_open, readVars,
                   serveVars, aloneVars>>

\* close(client_socket)
Close ==
    /\ pc = "close"
    /\ out' = Append(out, [op |-> "close", bytes |-> <<>>])
    /\ pc' = "done"
    /\ UNCHANGED <<threadVars, serverVars, storeVars, wire, sent, peer_open, readVars,
                   serveVars, aloneVars>>

Next ==
    \/ Start
    \/ EarlierConnections
    \/ Accept
    \/ PeerClose
    \/ RecvInitial
    \/ RecvInitialClosed
    \/ RecvBody
    \/ RecvBodyClosed
    \/ Process
    \/ SendHead
    \/ SendBinary
    \/ Close

Spec == Init /\ [][Next]_vars

(***************************************************************************)
(* url_decode alone: a string is percent-encoded, then decoded             *)
(***************************************************************************)
\* the bytes the strings are made of: the reserved '%', '+' and ' ', a
\* letter and a digit
DecodeAlphabet == {37, 43, 32, 97, 50, 122}

\* the longest string encoded
MaxLen == 3

Strings(n) == UNION {[1..k -> DecodeAlphabet] : k \in 0..n}

\* the ways to write one byte in a percent-encoded string: a reserved byte
\* as its %XX escape in either case, a space also as '+', any other byte
\* as itself
Escapes(c) ==
    IF c = 37 THEN {<<37,50,53>> (* "%25" *)}
    ELSE IF c = 43 THEN {<<37,50,66>> (* "%2B" *), <<37,50,98>> (* "%2b" *)}
    ELSE IF c = 32 THEN {<<37,50,48>> (* "%20" *), <<43>> (* "+" *)}
    ELSE {<<c>>}

\* the percent-encodings of s
RECURSIVE Encodings(_)
Encodings(s) ==
    IF s = <<>> THEN {<<>>}
    ELSE {e \o rest : e \in Escapes(Head(s)), rest \in Encodings(Tail(s))}

InitDecode ==
    /\ ServerInit
    /\ uploads_dir = FALSE
    /\ uploads = EmptyMap
    /\ pc = "encode"
    /\ ConnInit
    /\ str \in Strings(MaxLen)
    /\ encoded = <<>>
    /\ decoded = <<>>
    /\ registered = <<>>
    /\ parts = <<>>

EncodeStr ==
    /\ pc = "encode"
    /\ \E e \in Encodings(str) : encoded' = e
    /\ pc' = "decode"
    /\ UNCHANGED <<threadVars, serverVars, storeVars, wire, sent, peer_open, readVars,
                   serveVars, out, str, decoded, registered, parts>>

\* decoded = url_decode(encoded)
DecodeStr ==
    /\ pc = "decode"
    /\ \E uninit \in (IF ReadsUninit(encoded) THEN Garbage ELSE {0}) :
         decoded' = url_decode(encoded, uninit)
    /\ pc' = "decoded"
    /\ UNCHANGED <<threadVars, serverVars, storeVars, wire, sent, peer_open, readVars,
                   serveVars, out, str, encoded, registered, parts>>

\* decoded = url_decode(str): the string is decoded as it stands, whether
\* or not its '%' are followed by two hex digits
DecodeRaw ==
    /\ pc = "encode"
    /\ encoded' = str
    /\ \E uninit \in (IF ReadsUninit(str) THEN Garbage ELSE {0}) :
         decoded' = url_decode(str, uninit)
    /\ pc' = "decoded_raw"
    /\ UNCHANGED <<threadVars, serverVars, storeVars, wire, sent, peer_open, readVars,
                   serveVars, out, str, registered, parts>>

NextDecode == EncodeStr \/ DecodeStr \/ DecodeRaw

SpecDecode == InitDecode /\ [][NextDecode]_vars

\* C9: url_decode is a left inverse of percent-encoding for '%', '+' and
\* ' ': decoding any encoding of a string s (each reserved byte written as
\* its %XX escape, a space possibly as '+') gives s back, wherever the
\* escapes stand, the last three bytes included; and "a%20b+c" decodes to
\* "a b c".
C9_DecodeInvertsEncode ==
    /\ pc = "decoded" => decoded = str
    /\ url_decode(<<97,37,50,48,98,43,99>> (* "a%20b+c" *), 0) = <<97,32,98,32,99>> (* "a b c" *)

\* a string whose encoding ends in an escape has been decoded
C9_EscapeAtEnd ==
    /\ pc = "decoded"
    /\ Len(str) >= 2
    /\ Len(encoded) >= 4
    /\ encoded[Len(encoded) - 2] = 37

(***************************************************************************)
(* build_response alone, on the responses a route handler may leave        *)
(***************************************************************************)
\* a header a handler may have stored, by its key
HeaderValue(k) ==
    IF k = <<67,111,110,116,101,110,116,45,84,121,112,101>> (* "Content-Type" *) THEN <<116,101,120,116,47,112,108,97,105,110>> (* "text/plain" *)
    ELSE IF k = <<67,111,110,116,101,110,116,45,76,101,110,103,116,104>> (* "Content-Length" *) THEN <<57,57>> (* "99" *)
    ELSE <<49>> (* "1" *)

HeaderMaps ==
    {[k \in K |-> HeaderValue(k)] :
        K \in SUBSET {<<67,111,110,116,101,110,116,45,84,121,112,101>> (* "Content-Type" *), <<67,111,110,116,101,110,116,45,76,101,110,103,116,104>> (* "Content-Length" *), <<88,45,65>> (* "X-A" *)}}

Responses ==
    [status_code : {200, 404}, status_text : {<<79,75>> (* "OK" *), <<78,111,116,32,70,111,117,110,100>> (* "Not Found" *)},
     headers : HeaderMaps, body : {<<>>, <<111,107>> (* "ok" *)},
     binary_data : {<<>>, <<80,78,71>> (* "PNG" *)}, is_binary : BOOLEAN]

InitBuild ==
    /\ ServerInit
    /\ uploads_dir = FALSE
    /\ uploads = EmptyMap
    /\ pc = "build"
    /\ wire = NoWire
    /\ sent = 0
    /\ peer_open = TRUE
    /\ request_str = <<>>
    /\ body_received = 0
    /\ content_length = 0
    /\ request = NoRequest
    /\ response \in Responses
    /\ response_str = <<>>
    /\ invoked = <<>>
    /\ route_found = FALSE
    /\ out = <<>>
    /\ AloneInit

\* response_str = build_response(response)
Build ==
    /\ pc = "build"
    /\ response_str' = build_response(response)
    /\ pc' = "built"
    /\ UNCHANGED <<threadVars, serverVars, storeVars, wire, sent, peer_open, readVars,
                   request, response, invoked, route_found, out, aloneVars>>

NextBuild == Build

SpecBuild == InitBuild /\ [][NextBuild]_vars

\* the lines of a serialized response before its first blank line, and the
\* bytes after that blank line
StripCr(line) ==
    IF line # <<>> /\ line[Len(line)] = 13 THEN SubSeq(line, 1, Len(line) - 1) ELSE line

HeadLines(bytes) ==
    LET head == Substr(bytes, 0, Find(bytes, <<13,10,13,10>> (* "\r\n\r\n" *), 0))
        lines == SplitOn(head, 10)
    IN  [i \in 1..Len(lines) |-> StripCr(lines[i])]

AfterHead(bytes) == SubstrFrom(bytes, Find(bytes, <<13,10,13,10>> (* "\r\n\r\n" *), 0) + 4)

\* the Content-Length build_response is to compute
PayloadLength(r) == IF r.is_binary THEN Len(r.binary_data) ELSE Len(r.body)

\* C6: the head build_response serializes holds exactly one Content-Length
\* header, whose value is the binary byte count when the binary flag is set
\* and the text body's length otherwise, also for a response whose headers
\* already hold a Content-Length entry.
C6_OneContentLength ==
    pc = "built" =>
        LET lines == HeadLines(response_str)
            at == {i \in 1..Len(lines) : MatchAt(lines[i], <<67,111,110,116,101,110,116,45,76,101,110,103,116,104,58>> (* "Content-Length:" *), 0)}
        IN  /\ Cardinality(at) = 1
            /\ \A i \in at :
                 lines[i] = <<67,111,110,116,101,110,116,45,76,101,110,103,116,104,58,32>> (* "Content-Length: " *) \o to_string(PayloadLength(response))

\* C7: build_response yields the status line "HTTP/1.1 <status> <text>",
\* then every header as "Key: Value" and the Content-Length, each line
\* ended by CRLF, then a blank line, followed by exactly the text body when
\* the binary flag is false and by nothing when it is true; status 200 with
\* body "ok" and the flag false gives "HTTP/1.1 200 OK", "Content-Length: 2"
\* and the body "ok".
C7_ResponseFormat ==
    /\ pc = "built" =>
        LET lines == HeadLines(response_str)
        IN  /\ Find(response_str, <<13,10,13,10>> (* "\r\n\r\n" *), 0) # npos
            /\ Len(lines) = Cardinality(DOMAIN response.headers) + 2
            /\ lines[1] = <<72,84,84,80,47,49,46,49,32>> (* "HTTP/1.1 " *) \o to_string(response.status_code)
                          \o <<32>> (* " " *) \o response.status_text
            /\ \A k \in DOMAIN response.headers :
                 \E i \in 2..Len(lines) : lines[i] = k \o <<58,32>> (* ": " *) \o response.headers[k]
            /\ \E i \in 2..Len(lines) :
                 lines[i] = <<67,111,110,116,101,110,116,45,76,101,110,103,116,104,58,32>> (* "Content-Length: " *) \o to_string(PayloadLength(response))
            /\ AfterHead(response_str) =
                 IF response.is_binary THEN <<>> ELSE response.body
    /\ build_response([NewResponse EXCEPT !.body = <<111,107>> (* "ok" *)])
         = <<72,84,84,80,47,49,46,49,32,50,48,48,32,79,75,13,10,67,111,110,116,101,110,116,45,76,101,110,103,116,104,58,32,50,13,10,13,10,111,107>> (* "HTTP/1.1 200 OK\r\nContent-Length: 2\r\n\r\nok" *)

\* a binary response that also holds a text body and headers has been built
C7_BinaryBuilt ==
    /\ pc = "built"
    /\ response.is_binary
    /\ response.body = <<111,107>> (* "ok" *)
    /\ response.binary_data = <<80,78,71>> (* "PNG" *)
    /\ <<67,111,110,116,101,110,116,45,84,121,112,101>> (* "Content-Type" *) \in DOMAIN response.headers
    /\ response_str # <<>>

(***************************************************************************)
(* parse_multipart_form_data alone, on bodies made of well-formed parts    *)
(***************************************************************************)
\* the most parts a body holds
MaxParts == 2

\* a part: its Content-Disposition name, its filename (none: <<>>), whether
\* the filename parameter stands before the name parameter, and its payload
Parts ==
    [name : {<<116,105,116,108,101>> (* "title" *), <<97,118,97,116,97,114>> (* "avatar" *)}, filename : {<<>>}, filename_first : {FALSE},
     payload : {<<72,105>> (* "Hi" *), <<80,78,71>> (* "PNG" *)}]
    \cup
    [name : {<<116,105,116,108,101>> (* "title" *), <<97,118,97,116,97,114>> (* "avatar" *)}, filename : {<<97,46,112,110,103>> (* "a.png" *)}, filename_first : BOOLEAN,
     payload : {<<72,105>> (* "Hi" *), <<80,78,71>> (* "PNG" *)}]

\* the lists of parts with different names
PartLists ==
    UNION {{ps \in [1..n -> Parts] :
               \A i, j \in 1..n : ps[i].name = ps[j].name => i = j} : n \in 0..MaxParts}

\* the header lines of a part, the blank line after them included
PartHead(p) ==
    <<67,111,110,116,101,110,116,45,68,105,115,112,111,115,105,116,105,111,110,58,32,102,111,114,109,45,100,97,116,97,59,32>> (* "Content-Disposition: form-data; " *)
    \o (IF p.filename = <<>> THEN <<110,97,109,101,61,34>> (* "name=\"" *) \o p.name \o <<34>> (* "\"" *)
        ELSE IF p.filename_first
        THEN <<102,105,108,101,110,97,109,101,61,34>> (* "filename=\"" *) \o p.filename \o <<34,59,32,110,97,109,101,61,34>> (* "\"; name=\"" *) \o p.name \o <<34>> (* "\"" *)
        ELSE <<110,97,109,101,61,34>> (* "name=\"" *) \o p.name \o <<34,59,32,102,105,108,101,110,97,109,101,61,34>> (* "\"; filename=\"" *) \o p.filename \o <<34>> (* "\"" *))
    \o <<13,10>> (* "\r\n" *)
    \o (IF p.filename = <<>> THEN <<>> ELSE <<67,111,110,116,101,110,116,45,84,121,112,101,58,32,105,109,97,103,101,47,112,110,103,13,10>> (* "Content-Type: image/png\r\n" *))
    \o <<13,10>> (* "\r\n" *)

\* the multipart/form-data body of the parts ps under the boundary
RECURSIVE MultipartBody(_, _)
MultipartBody(ps, boundary) ==
    IF ps = <<>> THEN <<45,45>> (* "--" *) \o boundary \o <<45,45,13,10>> (* "--\r\n" *)
    ELSE <<45,45>> (* "--" *) \o boundary \o <<13,10>> (* "\r\n" *) \o PartHead(Head(ps)) \o Head(ps).payload
         \o <<13,10>> (* "\r\n" *) \o MultipartBody(Tail(ps), boundary)

InitMultipart ==
    /\ ServerInit
    /\ uploads_dir = FALSE
    /\ uploads = EmptyMap
    /\ pc = "parse"
    /\ ConnInit
    /\ str = <<>>
    /\ encoded = <<>>
    /\ decoded = <<>>
    /\ registered = <<>>
    /\ parts \in PartLists

\* parse_multipart_form_data(request, "X") on a request holding the body
ParseParts ==
    /\ pc = "parse"
    /\ \E body \in {MultipartBody(parts, <<88>> (* "X" *))} :
         \E parsed \in {parse_multipart_form_data(body, <<88>> (* "X" *))} :
           request' = [NoRequest EXCEPT !.body = body,
                                        !.form_data = parsed.form_data,
                                        !.files = parsed.files]
    /\ pc' = "parsed"
    /\ UNCHANGED <<threadVars, serverVars, storeVars, wire, sent, peer_open, readVars,
                   response, response_str, invoked, route_found, out, aloneVars>>

\* the body of the parts ps in which part k lacks the blank line that ends
\* its headers
RECURSIVE UnterminatedBody(_, _, _)
UnterminatedBody(ps, k, boundary) ==
    IF ps = <<>> THEN <<45,45>> (* "--" *) \o boundary \o <<45,45,13,10>> (* "--\r\n" *)
    ELSE <<45,45>> (* "--" *) \o boundary \o <<13,10>> (* "\r\n" *)
         \o (IF k = 1 THEN SubSeq(PartHead(Head(ps)), 1, Len(PartHead(Head(ps))) - 2)
             ELSE PartHead(Head(ps)))
         \o Head(ps).payload \o <<13,10>> (* "\r\n" *) \o UnterminatedBody(Tail(ps), k - 1, boundary)

\* parse_multipart_form_data on the body `body` of a request
ParseBody(body) ==
    /\ \E parsed \in {parse_multipart_form_data(body, <<88>> (* "X" *))} :
         request' = [NoRequest EXCEPT !.body = body,
                                      !.form_data = parsed.form_data,
                                      !.files = parsed.files]
    /\ pc' = "parsed_malformed"
    /\ UNCHANGED <<threadVars, serverVars, storeVars, wire, sent, peer_open, readVars,
                   response, response_str, invoked, route_found, out, aloneVars>>

\* parse_multipart_form_data on a body cut short after n bytes
ParseTruncated ==
    /\ pc = "parse"
    /\ \E body \in {MultipartBody(parts, <<88>> (* "X" *))} :
         \E n \in 0..(Len(body) - 1) : ParseBody(SubSeq(body, 1, n))

\* parse_multipart_form_data on a body one part of which has no blank line
\* after its headers
ParseUnterminated ==
    /\ pc = "parse"
    /\ \E k \in 1..Len(parts) : ParseBody(UnterminatedBody(parts, k, <<88>> (* "X" *)))

\* the body of the parts ps in which part k has, in place of its payload and
\* the "\r\n" after it, only the bytes gap before the next delimiter
RECURSIVE TightBody(_, _, _, _)
TightBody(ps, k, gap, boundary) ==
    IF ps = <<>> THEN <<45,45>> (* "--" *) \o boundary \o <<45,45,13,10>> (* "--\r\n" *)
    ELSE <<45,45>> (* "--" *) \o boundary \o <<13,10>> (* "\r\n" *) \o PartHead(Head(ps))
         \o (IF k = 1 THEN gap ELSE Head(ps).payload \o <<13,10>> (* "\r\n" *))
         \o TightBody(Tail(ps), k - 1, gap, boundary)

\* parse_multipart_form_data on a body one part of which is followed by the
\* next delimiter after fewer than two bytes
ParseTight ==
    /\ pc = "parse"
    /\ \E k \in 1..Len(parts), gap \in {<<>>, <<90>> (* "Z" *)} :
         \E body \in {TightBody(parts, k, gap, <<88>> (* "X" *))} :
           \E parsed \in {parse_multipart_form_data(body, <<88>> (* "X" *))} :
             request' = [NoRequest EXCEPT !.body = body,
                                          !.form_data = parsed.form_data,
                                          !.files = parsed.files]
    /\ pc' = "parsed_tight"
    /\ UNCHANGED <<threadVars, serverVars, storeVars, wire, sent, peer_open, readVars,
                   response, response_str, invoked, route_found, out, aloneVars>>

NextMultipart == ParseParts \/ ParseTruncated \/ ParseUnterminated \/ ParseTight

SpecMultipart == InitMultipart /\ [][NextMultipart]_vars

\* C10: multipart decoding stores every part under its Content-Disposition
\* name: a part with a filename as a file entry (filename, content type,
\* payload) and no form field, a part without one as a form field and no
\* file entry; the body of a field title = "Hi" and a file avatar =
\* "a.png" gives the form fields {title: Hi} and the files {avatar: a.png}.
C10_PartsByName ==
    /\ pc = "parsed" =>
        /\ DOMAIN request.form_data \cup DOMAIN request.files
             = {parts[i].name : i \in 1..Len(parts)}
        /\ \A i \in 1..Len(parts) :
             IF parts[i].filename # <<>>
             THEN /\ parts[i].name \in DOMAIN request.files
                  /\ parts[i].name \notin DOMAIN request.form_data
                  /\ request.files[parts[i].name] =
                       [filename |-> parts[i].filename,
                        content_type |-> <<105,109,97,103,101,47,112,110,103>> (* "image/png" *),
                        data |-> parts[i].payload]
             ELSE /\ parts[i].name \in DOMAIN request.form_data
                  /\ parts[i].name \notin DOMAIN request.files
                  /\ request.form_data[parts[i].name] = parts[i].payload
    /\ parse_multipart_form_data(
           MultipartBody(<<[name |-> <<116,105,116,108,101>> (* "title" *), filename |-> <<>>,
                            filename_first |-> FALSE, payload |-> <<72,105>> (* "Hi" *)],
                           [name |-> <<97,118,97,116,97,114>> (* "avatar" *), filename |-> <<97,46,112,110,103>> (* "a.png" *),
                            filename_first |-> FALSE, payload |-> <<80,78,71>> (* "PNG" *)]>>, <<88>> (* "X" *)),
           <<88>> (* "X" *))
         = [form_data |-> MapPut(EmptyMap, <<116,105,116,108,101>> (* "title" *), <<72,105>> (* "Hi" *)),
            files |-> MapPut(EmptyMap, <<97,118,97,116,97,114>> (* "avatar" *),
                             [filename |-> <<97,46,112,110,103>> (* "a.png" *), content_type |-> <<105,109,97,103,101,47,112,110,103>> (* "image/png" *),
                              data |-> <<80,78,71>> (* "PNG" *)])]

(***************************************************************************)
(* The route table alone: add_route calls, start(), then the route loop   *)
(* of handle_client on a request line                                      *)
(***************************************************************************)
\* the most add_route calls made before start()
MaxRoutes == 2

RouteMethods == {<<71,69,84>> (* "GET" *), <<80,79,83,84>> (* "POST" *)}
RouteTemplates == {<<47,97>> (* "/a" *), <<47,123,120,125>> (* "/{x}" *), <<47,97,46,98>> (* "/a.b" *), <<47,123,120,125,47,123,121,125>> (* "/{x}/{y}" *)}
RouteHandlers == {"h1", "h2"}
RoutePaths ==
    {<<47>> (* "/" *), <<47,97>> (* "/a" *), <<47,98>> (* "/b" *), <<47,97,47,98>> (* "/a/b" *), <<47,97,120,98>> (* "/axb" *), <<47,97,112,105,47,100,97,116,97,47,117,115,101,114,115,47,52,50>> (* "/api/data/users/42" *),
     <<47,97,112,105,47,100,97,116,97,47,117,115,101,114,115>> (* "/api/data/users" *), <<47,97,112,105,47,100,97,116,97,47,117,115,101,114,115,47,52,50,47,101,120,116,114,97>> (* "/api/data/users/42/extra" *)}

\* the add_route calls in the order they were made; a call that repeats a
\* (method, template) pair takes the place of the earlier one
Register(calls, call) ==
    IF \E i \in 1..Len(calls) : calls[i][1] = call[1] /\ calls[i][2] = call[2]
    THEN [i \in 1..Len(calls) |->
             IF calls[i][1] = call[1] /\ calls[i][2] = call[2] THEN call ELSE calls[i]]
    ELSE Append(calls, call)

RECURSIVE RegisterAll(_, _)
RegisterAll(calls, list) ==
    IF list = <<>> THEN calls
    ELSE RegisterAll(Register(calls, Head(list)), Tail(list))

InitRoute ==
    /\ ServerInit
    /\ uploads_dir = FALSE
    /\ uploads = EmptyMap
    /\ pc = "stopped"
    /\ ConnInit
    /\ AloneInit

\* add_route(method, path, handler), called before start()
AddRoute ==
    /\ pc = "stopped"
    /\ Len(registered) < MaxRoutes
    /\ \E method \in RouteMethods, path \in RouteTemplates, handler \in RouteHandlers :
         /\ routes' = add_route(routes, method, path, handler)
         /\ registered' = Register(registered, <<method, path, handler>>)
    /\ UNCHANGED <<threadVars, running, storeVars, pc, wire, sent, peer_open, readVars,
                   serveVars, out, str, encoded, decoded, parts>>

\* start() with socket, bind and listen succeeding
StartRoutes ==
    /\ pc = "stopped"
    /\ ~running
    /\ running' = TRUE
    /\ routes' = setup_default_routes(routes)
    /\ registered' = RegisterAll(registered, DefaultRoutes)
    /\ pc' = "lookup"
    /\ UNCHANGED <<threadVars, storeVars, wire, sent, peer_open, readVars, serveVars,
                   out, str, encoded, decoded, parts>>

\* the route loop of handle_client on a request with this method and path
Lookup ==
    /\ pc = "lookup"
    /\ \E method \in RouteMethods, path \in RoutePaths :
         \E called \in {Dispatch(routes, method, path)} :
           /\ request' = [NoRequest EXCEPT !.method = method, !.path = path]
           /\ invoked' = called
           /\ route_found' = (called # <<>>)
    /\ pc' = "found"
    /\ UNCHANGED <<threadVars, serverVars, storeVars, wire, sent, peer_open, readVars,
                   response, response_str, out, aloneVars>>

\* the longest path looked up in the built-in table, in segments
MaxSegments == 4

BuiltinMethods == {<<71,69,84>> (* "GET" *), <<80,79,83,84>> (* "POST" *), <<80,85,84>> (* "PUT" *), <<68,69,76,69,84,69>> (* "DELETE" *)}

\* the segments the paths are made of
PathSegments == {<<97,112,105>> (* "api" *), <<100,97,116,97>> (* "data" *), <<102,105,108,101,115>> (* "files" *), <<100,111,119,110,108,111,97,100>> (* "download" *), <<117,112,108,111,97,100>> (* "upload" *), <<117>> (* "u" *)}

\* "/" followed by the segments, with "/" between them
RECURSIVE PathOf(_)
PathOf(segments) ==
    IF segments = <<>> THEN <<47>> (* "/" *)
    ELSE IF Len(segments) = 1 THEN <<47>> (* "/" *) \o segments[1]
    ELSE <<47>> (* "/" *) \o segments[1] \o PathOf(Tail(segments))

BuiltinPaths ==
    {PathOf(segments) : segments \in UNION {[1..n -> PathSegments] : n \in 0..MaxSegments}}

\* the route loop of handle_client on a server whose table holds the
\* built-in routes only
LookupBuiltin ==
    /\ pc = "lookup"
    /\ routes = setup_default_routes(EmptyMap)
    /\ \E method \in BuiltinMethods, path \in BuiltinPaths :
         \E called \in {Dispatch(routes, method, path)} :
           /\ request' = [NoRequest EXCEPT !.method = method, !.path = path]
           /\ invoked' = called
           /\ route_found' = (called # <<>>)
    /\ pc' = "found_builtin"
    /\ UNCHANGED <<threadVars, serverVars, storeVars, wire, sent, peer_open, readVars,
                   response, response_str, out, aloneVars>>

NextRoute == AddRoute \/ StartRoutes \/ Lookup \/ LookupBuiltin

SpecRoute == InitRoute /\ [][NextRoute]_vars

\* C3: when several routes registered for the request's method have a
\* template that matches the request path, dispatch invokes the handler of
\* the one registered earliest, whatever the text of the templates.
C3_RegistrationOrder ==
    pc = "found" =>
        LET matching == {i \in 1..Len(registered) :
                            /\ registered[i][1] = request.method
                            /\ RouteMatches(registered[i][2], request.path)}
        IN  matching # {} => invoked = <<registered[Least(matching)][3]>>

\* the segments of a path or template: the texts between its slashes
Segments(s) == SplitOn(s \o <<47>>, 47)

IsParam(seg) == Len(seg) >= 3 /\ seg[1] = 123 /\ seg[Len(seg)] = 125

\* a template of n segments against a path of n segments, segment by
\* segment: a {name} position takes any non-empty segment, a literal its
\* own text
SegmentwiseMatch(template, path) ==
    LET ts == Segments(template)
        ps == Segments(path)
    IN  /\ Len(ts) = Len(ps)
        /\ \A i \in 1..Len(ts) :
             IF IsParam(ts[i]) THEN ps[i] # <<>> ELSE ps[i] = ts[i]

\* C4: a template matches a path only as a whole: a route is found exactly
\* when a template registered for the method has as many segments as the
\* path and matches it segment by segment, each {name} position holding one
\* non-empty segment; /api/data/{collection}/{id} matches
\* /api/data/users/42 and neither /api/data/users nor
\* /api/data/users/42/extra.
C4_WholePathSegments ==
    /\ pc = "found" =>
         (route_found <=>
            \E i \in 1..Len(registered) :
                /\ registered[i][1] = request.method
                /\ SegmentwiseMatch(registered[i][2], request.path))
    /\ RouteMatches(<<47,97,112,105,47,100,97,116,97,47,123,99,111,108,108,101,99,116,105,111,110,125,47,123,105,100,125>> (* "/api/data/{collection}/{id}" *), <<47,97,112,105,47,100,97,116,97,47,117,115,101,114,115,47,52,50>> (* "/api/data/users/42" *))
    /\ ~RouteMatches(<<47,97,112,105,47,100,97,116,97,47,123,99,111,108,108,101,99,116,105,111,110,125,47,123,105,100,125>> (* "/api/data/{collection}/{id}" *), <<47,97,112,105,47,100,97,116,97,47,117,115,101,114,115>> (* "/api/data/users" *))
    /\ ~RouteMatches(<<47,97,112,105,47,100,97,116,97,47,123,99,111,108,108,101,99,116,105,111,110,125,47,123,105,100,125>> (* "/api/data/{collection}/{id}" *), <<47,97,112,105,47,100,97,116,97,47,117,115,101,114,115,47,52,50,47,101,120,116,114,97>> (* "/api/data/users/42/extra" *))

(***************************************************************************)
(* Properties of the connection handler (Spec)                             *)
(***************************************************************************)
\* the positions of `out` holding a call of this kind
OutOps(op) == {i \in 1..Len(out) : out[i].op = op}

\* C1: on a connection whose first read returned at least one byte,
\* handle_client writes exactly one response head, then closes the
\* connection exactly once, and writes nothing after the close.
C1_OneResponseOneClose ==
    /\ Cardinality(OutOps("send")) <= 1
    /\ Cardinality(OutOps("close")) <= 1
    /\ \A i \in OutOps("close") : i = Len(out)
    /\ \A i \in OutOps("send") : i = 1 /\ out[i].bytes = response_str
    /\ (pc = "done" /\ sent > 0) =>
          /\ Cardinality(OutOps("send")) = 1
          /\ Cardinality(OutOps("close")) = 1

\* a connection served to its end: head, binary payload, close
C1_ServedAndClosed ==
    /\ pc = "done"
    /\ sent > 0
    /\ Len(out) = 3
    /\ out[1].op = "send"
    /\ out[2].op = "send_binary"
    /\ out[3].op = "close"

\* the body bytes of the request the handler has received
BodyBytesRead == IF sent > Len(wire.head) THEN sent - Len(wire.head) ELSE 0

\* C2: the request is never handed to the parser while the peer is still
\* open and fewer body bytes than the declared Content-Length have been
\* read, however the request bytes are split across the reads.
C2_ReadsDeclaredBody ==
    (pc = "process" /\ peer_open /\ wire.declared >= 0)
        => BodyBytesRead >= wire.declared

\* whether a registered route has the request's method (exactly) and a
\* template matching the request's path
MatchExists ==
    \E m \in DOMAIN routes :
        /\ m = request.method
        /\ \E t \in DOMAIN routes[m] : RouteMatches(t, request.path)

\* C5: when no registered route has the request's exact method and a
\* template matching its path, no handler is invoked and the response is a
\* 404 whose JSON body has an "error" key; otherwise exactly one handler is
\* invoked, that of a matching route, and the dispatcher's 404 is not
\* produced.
C5_NotFoundOrOneHandler ==
    response_str # <<>> =>
        IF MatchExists
        THEN /\ Len(invoked) = 1
             /\ route_found
             /\ \E t \in DOMAIN routes[request.method] :
                    /\ RouteMatches(t, request.path)
                    /\ invoked[1] = routes[request.method][t]
             /\ response.status_text # <<78,111,116,32,70,111,117,110,100>> (* "Not Found" *)
        ELSE /\ invoked = <<>>
             /\ ~route_found
             /\ response.status_code = 404
             /\ response.body = <<123,34,101,114,114,111,114,34,58,34,78,111,116,32,70,111,117,110,100,34,125>> (* "{\"error\":\"Not Found\"}" *)
             /\ response = send_error_response(NewResponse, 404, <<78,111,116,32,70,111,117,110,100>> (* "Not Found" *))

\* a request whose method differs from a registered one only in case got
\* the dispatcher's 404
C5_LowerCaseMethod404 ==
    /\ pc = "done"
    /\ request.method = <<103,101,116>> (* "get" *)
    /\ request.path = <<47>> (* "/" *)
    /\ invoked = <<>>
    /\ response.status_code = 404
    /\ Len(out) = 2

\* C8: every response the server writes carries a Content-Type header, the
\* header Access-Control-Allow-Origin: * and a Content-Length header, on
\* every dispatch path.
C8_HeadersOnEveryResponse ==
    \A i \in OutOps("send") :
        LET lines == HeadLines(out[i].bytes)
        IN  /\ \E n \in 1..Len(lines) :
                  MatchAt(lines[n], <<67,111,110,116,101,110,116,45,84,121,112,101,58,32>> (* "Content-Type: " *), 0) /\ Len(lines[n]) > 14
            /\ \E n \in 1..Len(lines) : lines[n] = <<65,99,99,101,115,115,45,67,111,110,116,114,111,108,45,65,108,108,111,119,45,79,114,105,103,105,110,58,32,42>> (* "Access-Control-Allow-Origin: *" *)
            /\ \E n \in 1..Len(lines) :
                  /\ MatchAt(lines[n], <<67,111,110,116,101,110,116,45,76,101,110,103,116,104,58,32>> (* "Content-Length: " *), 0)
                  /\ Len(lines[n]) > 16
                  /\ \A k \in 17..Len(lines[n]) : lines[n][k] \in 48..57

\* an error answer of a handler has been written: an upload without files
C8_HandlerErrorSent ==
    /\ OutOps("send") # {}
    /\ invoked = <<"handle_file_upload">>
    /\ response.status_code = 400

(***************************************************************************)
(* The threads of the server: the thread inside start() and its accept     *)
(* loop, the connection threads it spawns, a thread calling stop() and a   *)
(* thread calling add_route.  Statements of different threads interleave.  *)
(***************************************************************************)
\* the most connections the peers open
MaxConns == 2

\* the most lines written to std::cerr
MaxErr == 2

\* the most calls of stop(): by the application and by the destructor
MaxStops == 2

\* the variables of a single connection and of the functions run alone
otherVars == <<storeVars, pc, wire, sent, peer_open, readVars, serveVars, out, aloneVars, lockVars>>

\* the requests the connection threads serve
ThreadRequests == {<<<<71,69,84>> (* "GET" *), <<47>> (* "/" *)>>, <<<<71,69,84>> (* "GET" *), <<47,108,97,116,101>> (* "/late" *)>>}

\* the process has not been ended by std::terminate
Alive == stopper.pc # "terminated"

InitServer ==
    /\ ServerInit
    /\ uploads_dir = FALSE
    /\ uploads = EmptyMap
    /\ pc = "threads"
    /\ ConnInit
    /\ AloneInit

\* socket() of start() returns a descriptor
StartSocket ==
    /\ Alive
    /\ listener = "idle"
    /\ server_socket' = ListenFd
    /\ listener' = "bind"
    /\ UNCHANGED <<otherVars, closes, running, routes, worker_threads, stopper, handlers, err>>

\* socket() returns -1: report and return
StartSocketFails ==
    /\ Alive
    /\ listener = "idle"
    /\ err' = Append(err, "Failed to create socket")
    /\ listener' = "failed"
    /\ UNCHANGED <<otherVars, closes, running, routes, server_socket, worker_threads, stopper, handlers>>

\* setsockopt and bind() succeed
StartBind ==
    /\ Alive
    /\ listener = "bind"
    /\ listener' = "listen"
    /\ UNCHANGED <<otherVars, closes, running, routes, server_socket, worker_threads, stopper,
                   handlers, err>>

\* bind() returns -1 and start() reports it but goes on to listen()
StartBindFailsGoesOn ==
    /\ Alive
    /\ listener = "bind"
    /\ err' = Append(err, "Failed to bind socket")
    /\ listener' = "listen"
    /\ UNCHANGED <<otherVars, closes, running, routes, server_socket, worker_threads, stopper, handlers>>

\* bind() returns -1: report, close(server_socket) and return
StartBindFails ==
    /\ Alive
    /\ listener = "bind"
    /\ err' = Append(err, "Failed to bind socket")
    /\ closes' = Append(closes, server_socket)
    /\ listener' = "failed"
    /\ UNCHANGED <<otherVars, running, routes, server_socket, worker_threads, stopper, handlers>>

\* listen() succeeds
StartListen ==
    /\ Alive
    /\ listener = "listen"
    /\ listener' = "run"
    /\ UNCHANGED <<otherVars, closes, running, routes, server_socket, worker_threads, stopper,
                   handlers, err>>

\* listen() returns -1: report, close(server_socket) and return
StartListenFails ==
    /\ Alive
    /\ listener = "listen"
    /\ err' = Append(err, "Failed to listen on socket")
    /\ closes' = Append(closes, server_socket)
    /\ listener' = "failed"
    /\ UNCHANGED <<otherVars, running, routes, server_socket, worker_threads, stopper, handlers>>

\* running = true
StartRunning ==
    /\ Alive
    /\ listener = "run"
    /\ running' = TRUE
    /\ listener' = "routes"
    /\ UNCHANGED <<otherVars, closes, routes, server_socket, worker_threads, stopper, handlers, err>>

\* setup_default_routes(), then start_listening() is entered
StartDefaultRoutes ==
    /\ Alive
    /\ listener = "routes"
    /\ routes' = setup_default_routes(routes)
    /\ listener' = "loop"
    /\ UNCHANGED <<otherVars, closes, running, server_socket, worker_threads, stopper, handlers, err>>

\* while (running)
LoopTest ==
    /\ Alive
    /\ listener = "loop"
    /\ listener' = IF running THEN "accept" ELSE "returned"
    /\ UNCHANGED <<otherVars, closes, running, routes, server_socket, worker_threads, stopper,
                   handlers, err>>

\* accept(server_socket, ...) is called on the listening socket and blocks
AcceptCall ==
    /\ Alive
    /\ listener = "accept"
    /\ server_socket # 0 - 1
    /\ listener' = "blocked"
    /\ UNCHANGED <<otherVars, closes, running, routes, server_socket, worker_threads, stopper,
                   handlers, err>>

\* a client connects and accept() returns the connection: the call goes on
\* waiting on the socket it was made on, also after stop() has closed the
\* descriptor
AcceptConnection ==
    /\ Alive
    /\ listener = "blocked"
    /\ Len(handlers) < MaxConns
    /\ listener' = "spawn"
    /\ UNCHANGED <<otherVars, closes, running, routes, server_socket, worker_threads, stopper,
                   handlers, err>>

\* accept(-1, ...) returns -1 at once: reported if the server is still
\* running, then continue
AcceptFails ==
    /\ Alive
    /\ listener = "accept"
    /\ server_socket = 0 - 1
    /\ running => Len(err) < MaxErr
    /\ err' = IF running THEN Append(err, "Failed to accept client connection") ELSE err
    /\ listener' = "loop"
    /\ UNCHANGED <<otherVars, closes, running, routes, server_socket, worker_threads, stopper, handlers>>

\* worker_threads.emplace_back(...): the std::thread is constructed and its
\* handle_client starts
SpawnThread ==
    /\ Alive
    /\ listener = "spawn"
    /\ handlers' = Append(handlers, [pc |-> "recv", out |-> <<>>, invoked |-> <<>>,
                                     joined |-> FALSE])
    /\ listener' = "record"
    /\ UNCHANGED <<otherVars, closes, running, routes, server_socket, worker_threads, stopper, err>>

\* worker_threads.emplace_back(...): the vector now holds the thread
SpawnRecord ==
    /\ Alive
    /\ listener = "record"
    /\ worker_threads' = Append(worker_threads, Len(handlers))
    /\ listener' = "loop"
    /\ UNCHANGED <<otherVars, closes, running, routes, server_socket, stopper, handlers, err>>

\* the initial recv fails and the handler clears the running flag
HandlerAbandonsAndStops(t) ==
    /\ handlers[t].pc = "recv"
    /\ handlers' = [handlers EXCEPT ![t].pc = "finished", ![t].out = <<"close">>]
    /\ running' = FALSE
    /\ UNCHANGED <<otherVars, closes, routes, server_socket, worker_threads, listener,
                   stopper, err>>

\* handle_client of thread t: the initial recv returns 0 or -1
HandlerAbandons(t) ==
    /\ handlers[t].pc = "recv"
    /\ handlers' = [handlers EXCEPT ![t].pc = "finished", ![t].out = <<"close">>]
    /\ UNCHANGED <<otherVars, closes, running, routes, server_socket, worker_threads, listener,
                   stopper, err>>

\* handle_client of thread t: the request is read, the route loop run on
\* the table, the response sent
HandlerServes(t) ==
    /\ handlers[t].pc = "recv"
    /\ \E q \in ThreadRequests :
         handlers' = [handlers EXCEPT ![t].pc = "close",
                                      ![t].invoked = Dispatch(routes, q[1], q[2]),
                                      ![t].out = <<"send">>]
    /\ UNCHANGED <<otherVars, closes, running, routes, server_socket, worker_threads, listener,
                   stopper, err>>

\* handle_client of thread t: close(client_socket) and return
HandlerCloses(t) ==
    /\ handlers[t].pc = "close"
    /\ handlers' = [handlers EXCEPT ![t].pc = "finished",
                                    ![t].out = Append(@, "close")]
    /\ UNCHANGED <<otherVars, closes, running, routes, server_socket, worker_threads, listener,
                   stopper, err>>

Handler ==
    /\ Alive
    /\ \E t \in 1..Len(handlers) :
         HandlerAbandons(t) \/ HandlerServes(t) \/ HandlerCloses(t)

\* stop(): running = false
StopFlag ==
    /\ stopper.pc \in {"idle", "returned"}
    /\ stopper.calls < MaxStops
    /\ running' = FALSE
    /\ stopper' = [stopper EXCEPT !.pc = "socket", !.calls = @ + 1]
    /\ UNCHANGED <<otherVars, closes, routes, server_socket, worker_threads, listener, handlers, err>>

\* stop(): the listening socket is closed if there is one; the loop over
\* worker_threads takes its begin and end
StopSocket ==
    /\ stopper.pc = "socket"
    /\ closes' = IF server_socket # 0 - 1 THEN Append(closes, server_socket) ELSE closes
    /\ server_socket' = 0 - 1
    /\ stopper' = [stopper EXCEPT !.pc = "join", !.i = 1, !.last = Len(worker_threads)]
    /\ UNCHANGED <<otherVars, running, routes, worker_threads, listener, handlers, err>>

\* stop(): a thread that is joinable is joined, and thread.join() returns
\* once the thread has finished
StopJoin ==
    /\ stopper.pc = "join"
    /\ stopper.i <= stopper.last
    /\ \/ handlers[worker_threads[stopper.i]].joined
       \/ handlers[worker_threads[stopper.i]].pc = "finished"
    /\ handlers' = [handlers EXCEPT ![worker_threads[stopper.i]].joined = TRUE]
    /\ stopper' = [stopper EXCEPT !.i = @ + 1]
    /\ UNCHANGED <<otherVars, closes, running, routes, server_socket, worker_threads, listener, err>>

\* stop(): worker_threads.clear(), which ends the process through
\* std::terminate when it destroys a thread that is still joinable
StopClear ==
    /\ stopper.pc = "join"
    /\ stopper.i > stopper.last
    /\ IF \E k \in 1..Len(worker_threads) : ~handlers[worker_threads[k]].joined
       THEN /\ stopper' = [stopper EXCEPT !.pc = "terminated"]
            /\ UNCHANGED worker_threads
       ELSE /\ stopper' = [stopper EXCEPT !.pc = "returned"]
            /\ worker_threads' = <<>>
    /\ UNCHANGED <<otherVars, closes, running, routes, server_socket, listener, handlers, err>>

\* add_route called by a thread of the application
AddRouteLate ==
    /\ Alive
    /\ ~(<<71,69,84>> (* "GET" *) \in DOMAIN routes /\ <<47,108,97,116,101>> (* "/late" *) \in DOMAIN routes[<<71,69,84>> (* "GET" *)])
    /\ routes' = add_route(routes, <<71,69,84>> (* "GET" *), <<47,108,97,116,101>> (* "/late" *), "h1")
    /\ UNCHANGED <<otherVars, closes, running, server_socket, worker_threads, listener, stopper,
                   handlers, err>>

NextServer ==
    \/ StartSocket
    \/ StartSocketFails
    \/ StartBind
    \/ StartBindFails
    \/ StartListen
    \/ StartListenFails
    \/ StartRunning
    \/ StartDefaultRoutes
    \/ LoopTest
    \/ AcceptCall
    \/ AcceptConnection
    \/ AcceptFails
    \/ SpawnThread
    \/ SpawnRecord
    \/ Handler
    \/ StopFlag
    \/ StopSocket
    \/ StopJoin
    \/ StopClear
    \/ AddRouteLate

SpecServer == InitServer /\ [][NextServer]_vars

\* C11: when stop() has returned, the running flag is clear, the listening
\* socket is closed, and every connection thread the accept loop has
\* spawned has finished and has been joined.
C11_StopWaitsForHandlers ==
    stopper.pc = "returned" =>
        \A t \in 1..Len(handlers) :
            handlers[t].pc = "finished" /\ handlers[t].joined

\* what start() reports when it cannot set up the listening socket
StartFailures ==
    {"Failed to create socket", "Failed to bind socket", "Failed to listen on socket"}

\* C12: when socket(), bind() or listen() fails in start(), the failure is
\* reported and start() returns without entering the accept loop: the
\* running flag stays false and no connection thread exists; and start()
\* gives up only after reporting such a failure.
C12_FailedStartNeverServes ==
    /\ (\E k \in 1..Len(err) : err[k] \in StartFailures) =>
          /\ listener = "failed"
          /\ ~running
          /\ handlers = <<>>
          /\ worker_threads = <<>>
    /\ listener = "failed" => (err # <<>> /\ err[Len(err)] \in StartFailures)

\* listen() failed, and the failed server was stopped afterwards
C12_ListenFailedThenStopped ==
    /\ listener = "failed"
    /\ err = <<"Failed to listen on socket">>
    /\ stopper.pc = "returned"

\* C13: a connection thread whose initial read returns fewer than 1 byte
\* writes nothing, invokes no route handler, closes the connection, and
\* leaves the accept loop as it is: the running flag, the listening socket
\* and the position of the accept loop are untouched.
C13_AbandonedWithoutResponse ==
    [][\A t \in 1..Len(handlers) :
          (handlers[t].pc = "recv" /\ handlers'[t].pc = "finished") =>
              /\ handlers'[t].out = <<"close">>
              /\ handlers'[t].invoked = <<>>
              /\ listener' = listener
              /\ running' = running
              /\ server_socket' = server_socket]_vars

\* the first connection was abandoned and the accept loop, still running,
\* has spawned the thread of a second one
C13_AcceptsAfterAbandon ==
    /\ Len(handlers) = 2
    /\ handlers[1].pc = "finished"
    /\ handlers[1].out = <<"close">>
    /\ handlers[2].pc = "recv"
    /\ running
    /\ stopper.pc = "idle"

\* C20: once a connection thread has been spawned the route table is never
\* written again: no add_route or setup_default_routes changes it.
C20_TableFixedAfterSpawn ==
    [][handlers # <<>> => routes' = routes]_vars

\* C14: for a request without a Content-Length header, or with one whose
\* value is no length, the handler issues no read after the initial one:
\* it never waits in the body loop.
C14_NoLengthNoFurtherRead ==
    wire.declared < 0 => pc # "read_body"

\* every literal segment of the template equals the path segment at its
\* position
LiteralsExact(template, path) ==
    LET ts == Segments(template)
        ps == Segments(path)
    IN  \A i \in 1..Len(ts) :
            IsParam(ts[i]) \/ (i <= Len(ps) /\ ps[i] = ts[i])

\* C15: a literal segment of a template admits only the path segment equal
\* to it character for character: the handler the route loop invokes
\* belongs to a template registered for the method whose literal segments
\* all equal the path's segments at their positions.
C15_LiteralSegmentsExact ==
    (pc = "found" /\ route_found) =>
        \E i \in 1..Len(registered) :
            /\ registered[i][1] = request.method
            /\ registered[i][3] = invoked[1]
            /\ LiteralsExact(registered[i][2], request.path)

\* C16: the response is written as the head (status line, headers, text
\* body) in one write, followed by a second write, of the binary payload,
\* if and only if the binary flag is set and the payload is not empty; the
\* binary write never precedes the head write and both precede the close.
C16_HeadThenBinaryThenClose ==
    /\ \A i \in OutOps("send") : out[i].bytes = build_response(response)
    /\ \A i \in OutOps("send_binary") :
          /\ i = 2
          /\ out[1].op = "send"
          /\ out[i].bytes = response.binary_data
          /\ response.is_binary
          /\ response.binary_data # <<>>
    /\ \A i \in OutOps("close") :
          \A j \in OutOps("send") \cup OutOps("send_binary") : j < i
    /\ (pc \in {"close", "done"} /\ OutOps("send") # {}) =>
          (OutOps("send_binary") # {}
              <=> (response.is_binary /\ response.binary_data # <<>>))

\* an empty file was downloaded: binary flag set, no second write
C16_EmptyBinaryOneWrite ==
    /\ pc = "done"
    /\ response.is_binary
    /\ response.binary_data = <<>>
    /\ Len(out) = 2
    /\ out[1].op = "send"
    /\ out[2].op = "close"

\* the decoding of s from position i (1-based) that leaves alone every '%'
\* not followed by two hex digits
RECURSIVE PlainDecode(_, _)
PlainDecode(s, i) ==
    IF i > Len(s) THEN <<>>
    ELSE IF /\ s[i] = 37
            /\ i + 2 <= Len(s)
            /\ HexDigit(s[i + 1]) >= 0
            /\ HexDigit(s[i + 2]) >= 0
         THEN <<16 * HexDigit(s[i + 1]) + HexDigit(s[i + 2])>> \o PlainDecode(s, i + 3)
    ELSE IF s[i] = 43 THEN <<32>> \o PlainDecode(s, i + 1)
    ELSE <<s[i]>> \o PlainDecode(s, i + 1)

\* C17: url_decode turns a '%' followed by two hex digits into that byte
\* and '+' into a space, and copies every other byte: a '%' not followed
\* by two hex digits stays as it is, and so do the characters after it.
C17_MalformedEscapeKept ==
    pc = "decoded_raw" => decoded = PlainDecode(encoded, 1)

\* how many leading parts of a multipart body are complete: each starts at
\* a delimiter, has the blank line that ends its headers, and is closed by
\* a further delimiter; the count stops at the first part that is not, at
\* the closing marker or at the end of the body
RECURSIVE CompleteParts(_, _, _)
CompleteParts(body, delimiter, from) ==
    LET d == Find(body, delimiter, from)
        s == d + Len(delimiter)
        next == Find(body, delimiter, s)
    IN  IF d = npos \/ s >= Len(body) \/ Substr(body, s, 2) = <<45,45>> (* "--" *) THEN 0
        ELSE IF next = npos THEN 0
        ELSE IF Find(Substr(body, s, next - s), <<13,10,13,10>> (* "\r\n\r\n" *), 0) = npos THEN 0
        ELSE 1 + CompleteParts(body, delimiter, next)

\* C18: on a malformed multipart body decoding stops at the first part
\* whose header terminator or closing delimiter cannot be located: the
\* form fields and file parts are those of the complete parts before it,
\* and that part and everything after it contribute nothing.
C18_StopsAtFirstBrokenPart ==
    pc = "parsed_malformed" =>
        LET kept == SubSeq(parts, 1, CompleteParts(request.body, <<45,45,88>> (* "--X" *), 0))
            good == parse_multipart_form_data(MultipartBody(kept, <<88>> (* "X" *)), <<88>> (* "X" *))
        IN  /\ request.form_data = good.form_data
            /\ request.files = good.files

(***************************************************************************)
(* parse_request alone, on requests that carry one value in their query    *)
(* string, in a url-encoded body, in a multipart field or in a multipart   *)
(* file                                                                    *)
(***************************************************************************)
\* the bytes the values are made of: '%', '+', '2', 'a' and '?'
ValueAlphabet == {37, 43, 50, 97, 63}

\* the values as the client writes them
RawValues == UNION {[1..k -> ValueAlphabet] : k \in 0..MaxLen}

\* a request with the value v of the key k in its query string
QueryRequest(v) ==
    <<71,69,84,32,47,112,63,107,61>> (* "GET /p?k=" *) \o v \o <<32,72,84,84,80,47,49,46,49,13,10,72,111,115,116,58,32,104,13,10,13,10>> (* " HTTP/1.1\r\nHost: h\r\n\r\n" *)

\* a request with the value v of the key k in its url-encoded body
FormRequest(v) ==
    <<80,79,83,84,32,47,112,32,72,84,84,80,47,49,46,49,13,10,67,111,110,116,101,110,116,45,84,121,112,101,58,32,97,112,112,108,105,99,97,116,105,111,110,47,120,45,119,119,119,45,102,111,114,109,45,117,114,108,101,110,99,111,100,101,100,13,10,13,10>> (* "POST /p HTTP/1.1\r\nContent-Type: application/x-www-form-urlencoded\r\n\r\n" *)
    \o <<107,61>> (* "k=" *) \o v

\* a request whose multipart body holds the part p
PartRequest(p) ==
    <<80,79,83,84,32,47,112,32,72,84,84,80,47,49,46,49,13,10,67,111,110,116,101,110,116,45,84,121,112,101,58,32,109,117,108,116,105,112,97,114,116,47,102,111,114,109,45,100,97,116,97,59,32,98,111,117,110,100,97,114,121,61,88,13,10,13,10>> (* "POST /p HTTP/1.1\r\nContent-Type: multipart/form-data; boundary=X\r\n\r\n" *)
    \o MultipartBody(<<p>>, <<88>> (* "X" *))

InitParse ==
    /\ ServerInit
    /\ uploads_dir = FALSE
    /\ uploads = EmptyMap
    /\ pc = "raw"
    /\ ConnInit
    /\ str \in RawValues
    /\ encoded = <<>>
    /\ decoded = <<>>
    /\ registered = <<>>
    /\ parts = <<>>

\* request = parse_request(text)
ParseText(text, done) ==
    /\ request_str' = text
    /\ \E uninit \in (IF ReadsUninit(text) THEN Garbage ELSE {0}) :
         request' = parse_request(text, uninit)
    /\ pc' = done
    /\ UNCHANGED <<threadVars, serverVars, storeVars, wire, sent, peer_open,
                   body_received, content_length, response, response_str,
                   invoked, route_found, out, aloneVars>>

\* the value in the query string of the request line
ParseQuery ==
    /\ pc = "raw"
    /\ ParseText(QueryRequest(str), "parsed_query")

\* the value in a url-encoded body
ParseForm ==
    /\ pc = "raw"
    /\ ParseText(FormRequest(str), "parsed_form")

\* the value as the payload of a multipart part without a filename
ParseField ==
    /\ pc = "raw"
    /\ ParseText(PartRequest([name |-> <<116,105,116,108,101>> (* "title" *), filename |-> <<>>,
                              filename_first |-> FALSE, payload |-> str]),
                 "parsed_field")

\* the value as the payload of a multipart part with a filename
ParseFile ==
    /\ pc = "raw"
    /\ ParseText(PartRequest([name |-> <<97,118,97,116,97,114>> (* "avatar" *), filename |-> <<97,46,112,110,103>> (* "a.png" *),
                              filename_first |-> FALSE, payload |-> str]),
                 "parsed_file")

NextParse == ParseQuery \/ ParseForm \/ ParseField \/ ParseFile

SpecParse == InitParse /\ [][NextParse]_vars

\* C19: every Request parse_request returns has a path without '?', its
\* query-parameter values and its form-field values (of a url-encoded body
\* and of a multipart part without a filename) percent-decoded, and its
\* file bytes as they were sent.
C19_RequestInvariant ==
    /\ pc \in {"parsed_query", "parsed_form", "parsed_field", "parsed_file"} =>
          \A i \in 1..Len(request.path) : request.path[i] # 63
    /\ pc = "parsed_query" =>
          /\ DOMAIN request.query_params = {<<107>> (* "k" *)}
          /\ request.query_params[<<107>> (* "k" *)] = url_decode(str, 0)
    /\ pc = "parsed_form" =>
          /\ DOMAIN request.form_data = {<<107>> (* "k" *)}
          /\ request.form_data[<<107>> (* "k" *)] = url_decode(str, 0)
    /\ pc = "parsed_field" =>
          /\ DOMAIN request.form_data = {<<116,105,116,108,101>> (* "title" *)}
          /\ request.form_data[<<116,105,116,108,101>> (* "title" *)] = url_decode(str, 0)
    /\ pc = "parsed_file" =>
          /\ DOMAIN request.files = {<<97,118,97,116,97,114>> (* "avatar" *)}
          /\ request.files[<<97,118,97,116,97,114>> (* "avatar" *)].data = str

(***************************************************************************)
(* DataStore under concurrent callers: every operation takes data_mutex    *)
(* with a lock_guard, runs its statements and releases the mutex when it   *)
(* returns                                                                 *)
(***************************************************************************)
\* the threads calling into the DataStore at the same time
MaxCallers == 2

notStoreVars ==
    <<serverVars, uploads_dir, uploads, pc, wire, sent, peer_open, readVars,
      serveVars, out, aloneVars, server_socket, worker_threads, listener,
      stopper, handlers, err, closes>>

\* the items the callers pass: the second one brings an "id" of its own
StoreItems ==
    { MapPut(EmptyMap, <<97>> (* "a" *), <<98>> (* "b" *)),
      MapPut(MapPut(EmptyMap, <<97>> (* "a" *), <<99>> (* "c" *)), <<105,100>> (* "id" *), <<57>> (* "9" *)) }

\* the calls: the operation, its collection, its id and its item
StoreCalls ==
    [op : {"create"}, collection : {<<117>> (* "u" *)}, id : {<<>>}, item : StoreItems]
    \cup [op : {"read", "remove"}, collection : {<<117>> (* "u" *)}, id : {<<49>> (* "1" *), <<50>> (* "2" *)},
          item : {EmptyMap}]
    \cup [op : {"read_all"}, collection : {<<117>> (* "u" *)}, id : {<<>>}, item : {EmptyMap}]
    \cup [op : {"update"}, collection : {<<117>> (* "u" *)}, id : {<<49>> (* "1" *), <<50>> (* "2" *)},
          item : {MapPut(MapPut(EmptyMap, <<97>> (* "a" *), <<99>> (* "c" *)), <<105,100>> (* "id" *), <<57>> (* "9" *))}]

\* a thread about to make the call: n is the value of next_id it read, id
\* its local id, result what the call returns
Caller(call) == [call |-> call, pc |-> "call", n |-> 0, id |-> <<>>, result |-> <<>>]

\* the store holds the item an earlier connection created; the callers are
\* about to make their calls
InitStore ==
    /\ running = TRUE
    /\ routes = EmptyMap
    /\ \E s \in EarlierStores : data = s.data /\ next_id = s.next_id
    /\ server_socket = ListenFd
    /\ worker_threads = <<>>
    /\ listener = "loop"
    /\ stopper = NotStopping
    /\ handlers = <<>>
    /\ err = <<>>
    /\ data_mutex = 0
    /\ callers \in [1..MaxCallers -> {Caller(c) : c \in StoreCalls}]
    /\ closes = <<>>
    /\ uploads_dir = FALSE
    /\ uploads = EmptyMap
    /\ pc = "store"
    /\ ConnInit
    /\ AloneInit

\* a lock_guard that does not wait for the mutex
LockWithoutWaiting(t) ==
    /\ callers[t].pc = "call"
    /\ data_mutex' = t
    /\ callers' = [callers EXCEPT ![t].pc = callers[t].call.op]
    /\ UNCHANGED <<notStoreVars, data, next_id>>

\* std::lock_guard<std::mutex> lock(data_mutex): blocks while another thread
\* holds the mutex
Lock(t) ==
    /\ callers[t].pc = "call"
    /\ data_mutex = 0
    /\ data_mutex' = t
    /\ callers' = [callers EXCEPT ![t].pc = callers[t].call.op]
    /\ UNCHANGED <<notStoreVars, data, next_id>>

\* create: next_id++ reads the counter ...
CreateReadNextId(t) ==
    /\ callers[t].pc = "create"
    /\ callers' = [callers EXCEPT ![t].pc = "create_increment", ![t].n = next_id]
    /\ UNCHANGED <<notStoreVars, data, next_id, data_mutex>>

\* ... and writes it back one higher; id = std::to_string of the value read
CreateIncrement(t) ==
    /\ callers[t].pc = "create_increment"
    /\ next_id' = callers[t].n + 1
    /\ callers' = [callers EXCEPT ![t].pc = "create_put",
                                  ![t].id = to_string(callers[t].n)]
    /\ UNCHANGED <<notStoreVars, data, data_mutex>>

\* create: new_item["id"] = id; data[collection][id] = new_item; return id
CreatePut(t) ==
    /\ callers[t].pc = "create_put"
    /\ data' = StorePut(data, callers[t].call.collection, callers[t].id,
                        MapPut(callers[t].call.item, <<105,100>> (* "id" *), callers[t].id))
    /\ callers' = [callers EXCEPT ![t].pc = "unlock", ![t].result = callers[t].id]
    /\ UNCHANGED <<notStoreVars, next_id, data_mutex>>

\* read: the copy of the item, or an empty map
Read(t) ==
    /\ callers[t].pc = "read"
    /\ callers' = [callers EXCEPT
                      ![t].pc = "unlock",
                      ![t].result = DataStore_read(data, callers[t].call.collection,
                                                   callers[t].call.id)]
    /\ UNCHANGED <<notStoreVars, data, next_id, data_mutex>>

\* read_all: the copies of the items of the collection
ReadAll(t) ==
    /\ callers[t].pc = "read_all"
    /\ callers' = [callers EXCEPT
                      ![t].pc = "unlock",
                      ![t].result = DataStore_read_all(data, callers[t].call.collection)]
    /\ UNCHANGED <<notStoreVars, data, next_id, data_mutex>>

\* update: the test whether the item is there
UpdateFind(t) ==
    /\ callers[t].pc = "update"
    /\ callers' = [callers EXCEPT
                      ![t].pc = IF HasItem(data, callers[t].call.collection,
                                           callers[t].call.id)
                                THEN "update_put" ELSE "unlock",
                      ![t].result = FALSE]
    /\ UNCHANGED <<notStoreVars, data, next_id, data_mutex>>

\* update: updated_item["id"] = id; data[collection][id] = updated_item
UpdatePut(t) ==
    /\ callers[t].pc = "update_put"
    /\ data' = StorePut(data, callers[t].call.collection, callers[t].call.id,
                        MapPut(callers[t].call.item, <<105,100>> (* "id" *), callers[t].call.id))
    /\ callers' = [callers EXCEPT ![t].pc = "unlock", ![t].result = TRUE]
    /\ UNCHANGED <<notStoreVars, next_id, data_mutex>>

\* remove: the test whether the item is there
RemoveFind(t) ==
    /\ callers[t].pc = "remove"
    /\ callers' = [callers EXCEPT
                      ![t].pc = IF HasItem(data, callers[t].call.collection,
                                           callers[t].call.id)
                                THEN "remove_erase" ELSE "unlock",
                      ![t].result = FALSE]
    /\ UNCHANGED <<notStoreVars, data, next_id, data_mutex>>

\* remove: data[collection].erase(id), which erases nothing when another
\* thread has erased the item since the test
RemoveErase(t) ==
    /\ callers[t].pc = "remove_erase"
    /\ data' = DataStore_remove(data, callers[t].call.collection,
                                callers[t].call.id).data
    /\ callers' = [callers EXCEPT ![t].pc = "unlock", ![t].result = TRUE]
    /\ UNCHANGED <<notStoreVars, next_id, data_mutex>>

\* the operation returns: the lock_guard releases the mutex
Unlock(t) ==
    /\ callers[t].pc = "unlock"
    /\ data_mutex' = 0
    /\ callers' = [callers EXCEPT ![t].pc = "done"]
    /\ UNCHANGED <<notStoreVars, data, next_id>>

NextStore ==
    \E t \in 1..MaxCallers :
        \/ Lock(t)
        \/ CreateReadNextId(t)
        \/ CreateIncrement(t)
        \/ CreatePut(t)
        \/ Read(t)
        \/ ReadAll(t)
        \/ UpdateFind(t)
        \/ UpdatePut(t)
        \/ RemoveFind(t)
        \/ RemoveErase(t)
        \/ Unlock(t)

SpecStore == InitStore /\ [][NextStore]_vars

\* the call alone on the store: what it returns and the store it leaves
ApplyCall(call, store) ==
    IF call.op = "create"
    THEN LET Done(r) == [data |-> r.data, next_id |-> r.next_id, result |-> r.id]
         IN  Done(DataStore_create(store.data, store.next_id, call.collection, call.item))
    ELSE IF call.op = "read"
    THEN [data |-> store.data, next_id |-> store.next_id,
          result |-> DataStore_read(store.data, call.collection, call.id)]
    ELSE IF call.op = "read_all"
    THEN [data |-> store.data, next_id |-> store.next_id,
          result |-> DataStore_read_all(store.data, call.collection)]
    ELSE IF call.op = "update"
    THEN LET Done(r) == [data |-> r.data, next_id |-> store.next_id, result |-> r.ok]
         IN  Done(DataStore_update(store.data, call.collection, call.id, call.item))
    ELSE LET Done(r) == [data |-> r.data, next_id |-> store.next_id, result |-> r.ok]
         IN  Done(DataStore_remove(store.data, call.collection, call.id))

\* the calls of the threads made one after the other in the order given:
\* the store left and what each thread's call returned
RECURSIVE Sequential(_, _, _)
Sequential(order, store, results) ==
    IF order = <<>> THEN [data |-> store.data, next_id |-> store.next_id,
                          results |-> results]
    ELSE LET Step(r) ==
                 Sequential(Tail(order), [data |-> r.data, next_id |-> r.next_id],
                            [results EXCEPT ![Head(order)] = r.result])
         IN  Step(ApplyCall(callers[Head(order)].call, store))

\* the orders in which the threads can be lined up
CallOrders ==
    {o \in [1..Len(callers) -> 1..Len(callers)] :
        \A i, j \in 1..Len(callers) : o[i] = o[j] => i = j}

\* C21: every DataStore operation is atomic with respect to every other:
\* whatever the interleaving of the concurrent calls, what they returned and
\* the store they left are those of the same calls made one after the other
\* in some order; two concurrent create calls never return the same id, and
\* the item of each is in the store unless a remove call named it.
C21_OperationsAtomic ==
    (\A t \in 1..Len(callers) : callers[t].pc = "done") =>
        /\ \E order \in CallOrders :
             LET start == CHOOSE s \in EarlierStores : TRUE
                 seq == Sequential(order, [data |-> start.data, next_id |-> start.next_id],
                                   [t \in 1..Len(callers) |-> <<>>])
             IN  /\ seq.data = data
                 /\ seq.next_id = next_id
                 /\ \A t \in 1..Len(callers) : seq.results[t] = callers[t].result
        /\ \A t, u \in 1..Len(callers) :
             (t # u /\ callers[t].call.op = "create" /\ callers[u].call.op = "create")
                => callers[t].result # callers[u].result
        /\ \A t \in 1..Len(callers) :
             (/\ callers[t].call.op = "create"
              /\ \A u \in 1..Len(callers) :
                   ~(callers[u].call.op = "remove" /\ callers[u].call.id = callers[t].result))
                => HasItem(data, callers[t].call.collection, callers[t].result)

\* two create calls that ran at the same time have returned
C21_TwoCreatesReturned ==
    /\ Len(callers) >= 2
    /\ \A t \in 1..Len(callers) : callers[t].pc = "done"
    /\ callers[1].call.op = "create"
    /\ callers[2].call.op = "create"
    /\ callers[1].result = <<51>> (* "3" *)
    /\ callers[2].result = <<50>> (* "2" *)

\* C22: the length the read loop waits for is the request's own
\* Content-Length header: once a request whose head came with the first read
\* is parsed, the content_length the handler extracted equals the value
\* parse_request stored under the header Content-Length (0 when the request
\* has no such header).
C22_AwaitedLengthIsOwnHeader ==
    (pc = "send_head" /\ Find(request_str, <<13,10,13,10>> (* "\r\n\r\n" *), 0) # npos) =>
        content_length =
            IF <<67,111,110,116,101,110,116,45,76,101,110,103,116,104>> (* "Content-Length" *) \in DOMAIN request.headers
            THEN Stoul(request.headers[<<67,111,110,116,101,110,116,45,76,101,110,103,116,104>> (* "Content-Length" *)])
            ELSE 0

\* C23: when the read loop has ended because the body length received
\* reached the declared Content-Length exactly, the body of the Request
\* parse_request produced has exactly Content-Length bytes and equals the
\* bytes that followed the header terminator on the wire.
C23_BodyIsWireBody ==
    (/\ pc = "send_head"
     /\ wire.declared > 0
     /\ content_length = wire.declared
     /\ body_received = content_length)
        => /\ Len(request.body) = content_length
           /\ request.body = wire.body

\* whether v is a piece of the body that begins right after a header
\* terminator and ends at or before the next delimiter
WithinPart(v, body, delimiter) ==
    \E pos \in 4..Len(body) :
        /\ SubSeq(body, pos - 3, pos) = <<13,10,13,10>> (* "\r\n\r\n" *)
        /\ Find(body, delimiter, pos) # npos
        /\ Len(v) <= Find(body, delimiter, pos) - pos
        /\ v = SubSeq(body, pos + 1, pos + Len(v))

\* C24: in multipart decoding a part's payload never extends past the
\* delimiter that closes the part: every stored form-field value and every
\* stored file byte sequence is a piece of the body lying between the part's
\* header terminator and the next "--boundary" delimiter, also when fewer
\* than two bytes separate the two.
C24_PayloadWithinPart ==
    pc \in {"parsed", "parsed_malformed", "parsed_tight"} =>
        /\ \A n \in DOMAIN request.form_data :
             WithinPart(request.form_data[n], request.body, <<45,45,88>> (* "--X" *))
        /\ \A n \in DOMAIN request.files :
             WithinPart(request.files[n].data, request.body, <<45,45,88>> (* "--X" *))

\* the built-in templates registered for the request's method that match
\* the request's path
BuiltinMatches ==
    IF request.method \in DOMAIN routes
    THEN {t \in DOMAIN routes[request.method] : RouteMatches(t, request.path)}
    ELSE {}

\* C25: for the built-in route table dispatch does not depend on the order
\* in which the routes are examined: at most one of the built-in templates
\* registered for the request's method matches the request's path, and the
\* handler invoked is the one of that template.
C25_OneBuiltinMatch ==
    pc = "found_builtin" =>
        /\ Cardinality(BuiltinMatches) <= 1
        /\ \A t \in BuiltinMatches : invoked = <<routes[request.method][t]>>
        /\ BuiltinMatches = {} => invoked = <<>>

\* a path of four segments has been dispatched to the download handler
C25_DownloadDispatched ==
    /\ pc = "found_builtin"
    /\ request.method = <<71,69,84>> (* "GET" *)
    /\ request.path = <<47,97,112,105,47,102,105,108,101,115,47,100,111,119,110,108,111,97,100,47,117,112,108,111,97,100>> (* "/api/files/download/upload" *)
    /\ invoked = <<"handle_file_download">>

\* C26: the listening socket is closed at most once over the server's
\* lifetime: whatever the sequence of start() (succeeding, or failing at
\* socket, bind or listen) and stop() calls, that of the destructor
\* included, no descriptor that has been closed is closed again.
C26_ListenSocketClosedOnce ==
    \A i, j \in DOMAIN closes :
        (i # j /\ closes[i] # 0 - 1) => closes[i] # closes[j]

(***************************************************************************)
(* The connection under a peer that behaves and a handler thread that is   *)
(* scheduled: the peer goes on to deliver bytes it has or to close, the    *)
(* handler goes on to take the step it stands at, and parse_request, the   *)
(* route loop and build_response come to their end                         *)
(***************************************************************************)
PeerStep == RecvInitial \/ RecvBody \/ PeerClose

HandlerStep ==
    \/ RecvInitialClosed
    \/ RecvBodyClosed
    \/ SendHead
    \/ SendBinary
    \/ Close

SpecFair ==
    /\ Init
    /\ [][Next]_vars
    /\ WF_vars(PeerStep)
    /\ WF_vars(HandlerStep)
    /\ []<>(pc # "process")

ListenerStep == LoopTest \/ AcceptCall \/ AcceptFails \/ SpawnThread \/ SpawnRecord

\* the steps of the thread that runs stop(), once it has been called
StopperStep == StopSocket \/ StopJoin \/ StopClear

\* the server with threads that are scheduled again and again and peers that
\* send or close; whether another client ever connects is not assumed
SpecServerFair ==
    /\ InitServer
    /\ [][NextServer]_vars
    /\ WF_vars(ListenerStep)
    /\ WF_vars(StopperStep)
    /\ WF_vars(Handler)

\* the accept loop of start_listening is running
InAcceptLoop == listener \in {"loop", "accept", "blocked", "spawn", "record"}

\* C28: shutdown completes: once stop() has been called on a running server
\* the accept loop eventually exits and stop() eventually returns (unless
\* std::terminate has ended the process); and a failed accept while the
\* server is still running does not end the accept loop.
C28_ShutdownCompletes ==
    /\ (stopper.pc = "socket" /\ ~running /\ InAcceptLoop)
           ~> (listener = "returned" \/ ~Alive)
    /\ (stopper.pc = "socket" /\ ~running /\ InAcceptLoop)
           ~> (stopper.pc = "returned" \/ ~Alive)
    /\ [][(listener = "accept" /\ running /\ server_socket = 0 - 1)
            => listener' \in {"accept", "loop"}]_vars


(***************************************************************************)
(* DataStore over a sequence of calls made one after the other: callers    *)
(* is the record of the calls made so far, each with the value of next_id  *)
(* it found (n) and what it returned                                       *)
(***************************************************************************)
\* the calls of a run
MaxCalls == 3

\* the largest value of int next_id
IntMax == 2147483647

\* the counter of a new store, and the counter after IntMax - 2 items have
\* been created
StartCounters == {1, IntMax - 1}

CallCollections == {<<117>> (* "u" *), <<118>> (* "v" *)}

\* the ids the calls name: the ids stored and one that never is
CallIds(d) == UNION {DOMAIN d[c] : c \in DOMAIN d} \cup {<<55>> (* "7" *)}

\* the process has not been ended by the overflow of next_id
CallsGoOn ==
    /\ pc = "calls"
    /\ Len(callers) < MaxCalls
    /\ IF callers = <<>> THEN TRUE ELSE callers[Len(callers)].pc # "aborted"

\* the record of a call that has returned
Returned(op, collection, id, item, n, result) ==
    [call |-> [op |-> op, collection |-> collection, id |-> id, item |-> item],
     pc |-> "done", n |-> n, id |-> id, result |-> result]

InitCalls ==
    /\ running = TRUE
    /\ routes = EmptyMap
    /\ data = EmptyMap
    /\ next_id \in StartCounters
    /\ server_socket = ListenFd
    /\ worker_threads = <<>>
    /\ listener = "loop"
    /\ stopper = NotStopping
    /\ handlers = <<>>
    /\ err = <<>>
    /\ data_mutex = 0
    /\ callers = <<>>
    /\ closes = <<>>
    /\ uploads_dir = FALSE
    /\ uploads = EmptyMap
    /\ pc = "calls"
    /\ ConnInit
    /\ AloneInit

\* create(collection, item) while next_id can still be incremented
CallCreate ==
    /\ CallsGoOn
    /\ next_id < IntMax
    /\ \E collection \in CallCollections, item \in StoreItems :
         \E r \in {DataStore_create(data, next_id, collection, item)} :
            /\ data' = r.data
            /\ next_id' = r.next_id
            /\ callers' = Append(callers, Returned("create", collection, r.id, item,
                                                   next_id, r.id))
    /\ UNCHANGED <<notStoreVars, data_mutex>>

\* create(collection, item) with next_id at IntMax: next_id++ overflows the
\* int, which is undefined; the counter wraps to the smallest int and the item
\* is stored under the id read, or the process is ended
CallCreateOverflow ==
    /\ CallsGoOn
    /\ next_id = IntMax
    /\ \E collection \in CallCollections, item \in StoreItems :
         \E id \in {to_string(next_id)} :
            \/ /\ data' = StorePut(data, collection, id, MapPut(item, <<105,100>> (* "id" *), id))
               /\ next_id' = 0 - IntMax - 1
               /\ callers' = Append(callers, Returned("create", collection, id, item,
                                                      next_id, id))
            \/ /\ callers' = Append(callers,
                                    [Returned("create", collection, <<>>, item, next_id, <<>>)
                                       EXCEPT !.pc = "aborted"])
               /\ UNCHANGED <<data, next_id>>
    /\ UNCHANGED <<notStoreVars, data_mutex>>

\* read(collection, id)
CallRead ==
    /\ CallsGoOn
    /\ \E collection \in CallCollections, id \in CallIds(data) :
         callers' = Append(callers, Returned("read", collection, id, EmptyMap, next_id,
                                             DataStore_read(data, collection, id)))
    /\ UNCHANGED <<notStoreVars, data_mutex, data, next_id>>

\* update(collection, id, item)
CallUpdate ==
    /\ CallsGoOn
    /\ \E collection \in CallCollections, id \in CallIds(data), item \in StoreItems :
         \E r \in {DataStore_update(data, collection, id, item)} :
            /\ data' = r.data
            /\ callers' = Append(callers, Returned("update", collection, id, item,
                                                   next_id, r.ok))
    /\ UNCHANGED <<notStoreVars, data_mutex, next_id>>

\* remove(collection, id)
CallRemove ==
    /\ CallsGoOn
    /\ \E collection \in CallCollections, id \in CallIds(data) :
         \E r \in {DataStore_remove(data, collection, id)} :
            /\ data' = r.data
            /\ callers' = Append(callers, Returned("remove", collection, id, EmptyMap,
                                                   next_id, r.ok))
    /\ UNCHANGED <<notStoreVars, data_mutex, next_id>>

\* the handlers of the routes that name an item, with the method of each
ItemHandlers ==
    { <<<<71,69,84>> (* "GET" *), "handle_crud_read">>, <<<<80,85,84>> (* "PUT" *), "handle_crud_update">>,
      <<<<68,69,76,69,84,69>> (* "DELETE" *), "handle_crud_delete">> }

\* the request for the item `id` of `collection`
ItemRequest(method, collection, id) ==
    [method |-> method, path |-> <<47,97,112,105,47,100,97,116,97,47>> (* "/api/data/" *) \o collection \o <<47>> (* "/" *) \o id,
     version |-> <<72,84,84,80,47,49,46,49>> (* "HTTP/1.1" *), headers |-> EmptyMap, body |-> <<123,97,58,99,125>> (* "{a:c}" *),
     query_params |-> EmptyMap, form_data |-> EmptyMap, files |-> EmptyMap]

\* a handler of the item routes is called on a new response
CallItemHandler ==
    /\ CallsGoOn
    /\ \E h \in ItemHandlers, collection \in CallCollections, id \in CallIds(data) :
         \E r \in {CallHandler(h[2], ItemRequest(h[1], collection, id), NewResponse,
                               [data |-> data, next_id |-> next_id,
                                uploads_dir |-> uploads_dir, uploads |-> uploads,
                                client_html |-> NoFile, listing |-> <<>>])} :
            /\ data' = r.env.data
            /\ next_id' = r.env.next_id
            /\ callers' = Append(callers, Returned(h[2], collection, id, EmptyMap,
                                                   next_id, r.response))
    /\ UNCHANGED <<notStoreVars, data_mutex>>

NextCalls ==
    \/ CallCreate
    \/ CallCreateOverflow
    \/ CallRead
    \/ CallUpdate
    \/ CallRemove
    \/ CallItemHandler

SpecCalls == InitCalls /\ [][NextCalls]_vars

\* C29: each stored item is filed under the key equal to its own "id" field,
\* also when the caller of create or update brought an "id", and the ids that
\* create has issued are strictly increasing across the collections, so that
\* none is issued twice, not even after its item was removed.
C29_IdsFiledAndIncreasing ==
    /\ \A c \in DOMAIN data : \A k \in DOMAIN data[c] :
          <<105,100>> (* "id" *) \in DOMAIN data[c][k] /\ data[c][k][<<105,100>> (* "id" *)] = k
    /\ \A i, j \in 1..Len(callers) :
          (/\ i < j
           /\ callers[i].call.op = "create" /\ callers[i].pc = "done"
           /\ callers[j].call.op = "create" /\ callers[j].pc = "done")
             => /\ callers[i].n < callers[j].n
                /\ callers[i].result # callers[j].result


\* the call made in the step, if it made one
LastCall(log) == log[Len(log)]

\* the answer of send_error_response(response, 404, "Item not found")
IsItemNotFound(r) ==
    /\ r.status_code = 404
    /\ r.body = <<123,34,101,114,114,111,114,34,58,34,73,116,101,109,32,110,111,116,32,102,111,117,110,100,34,125>> (* "{\"error\":\"Item not found\"}" *)

\* C30: update and remove of a (collection, id) that is not in the store
\* return false and leave data and next_id as they are, read of it returns
\* an empty map, and the GET-by-id, PUT and DELETE handlers answer 404 'Item
\* not found' exactly when the (collection, id) is not in the store, which
\* they then leave as it is.
C30_AbsentRecordChangesNothing ==
    [][Len(callers') = Len(callers) + 1 =>
         LET c == LastCall(callers')
             absent == ~HasItem(data, c.call.collection, c.call.id)
         IN  /\ c.call.op \in {"update", "remove"} =>
                  /\ c.result = ~absent
                  /\ absent => (data' = data /\ next_id' = next_id)
             /\ c.call.op = "read" => (c.result = EmptyMap <=> absent)
             /\ c.call.op \in {h[2] : h \in ItemHandlers} =>
                  /\ IsItemNotFound(c.result) <=> absent
                  /\ absent => (data' = data /\ next_id' = next_id)]_vars

\* a PUT for an id that a collection holding another item does not hold has
\* been answered with 404 after a remove of an absent item returned false
C30_AbsentAnswered ==
    /\ Len(callers) = 3
    /\ callers[1].call.op = "create"
    /\ callers[2].call.op = "remove" /\ callers[2].result = FALSE
    /\ callers[3].call.op = "handle_crud_update"
    /\ callers[3].call.collection = callers[1].call.collection
    /\ callers[3].call.id # callers[1].result
    /\ IsItemNotFound(callers[3].result)
    /\ data # EmptyMap

=============================================================================
